---------------------------- MODULE Spec2Model ----------------------------
(***************************************************************************)
(* A model of the trap / execution-context layer of axcpu:                 *)
(*   - the exception fixup table        (src/src/trap.rs)                  *)
(*   - the handler registry dispatch    (src/src/trap.rs, handle_trap!)    *)
(*   - the x86_64 kernel trap dispatcher (src/src/x86_64/trap.rs)          *)
(*   - x86_64 and aarch64 UserContext::run (src/src/*/uspace.rs)           *)
(*   - x86_64 TaskContext and switch_to (src/src/x86_64/context.rs)        *)
(* The optional features uspace, tls and fp-simd are taken as enabled.     *)
(***************************************************************************)
EXTENDS Integers, Sequences, FiniteSets, TLC

VARIABLES
    \* ---- exception fixup table and the frame under fixup / dispatch ----
    ex_table,       \* the linked table: a sequence of [from, to] entries
    table_sorted,   \* init_exception_table has run
    tf,             \* the x86_64 TrapFrame the last operation worked on
    fix,            \* record of the last fixup_exception call
    \* ---- handler registry ----
    IRQ,            \* the IRQ slice: a sequence of handlers
    PAGE_FAULT,     \* the PAGE_FAULT slice: a sequence of handlers
    BREAK_HANDLER,  \* the BREAK_HANDLER slice
    DEBUG_HANDLER,  \* the DEBUG_HANDLER slice
    ht,             \* record of the last handle_trap! expansion
    calls,          \* the callbacks the last operation invoked, in order
    \* ---- x86_64 kernel trap dispatcher ----
    ktrap,          \* record of the last x86_trap_handler call
    \* ---- UserContext::run ----
    arch,           \* the architecture the kernel is built for
    uctx,           \* x86_64: the UserContext's frame
    cpu,            \* x86_64: IF, FS base, KERNEL_FS_BASE, CR2, CR4
    run,            \* x86_64: where run() stands and what it returned
    a64,            \* aarch64: ESR_EL1, FAR_EL1 and the last run()
    \* ---- x86_64 TaskContext and switch_to ----
    ctx,            \* the TaskContext of every task
    mem,            \* the kernel stacks: word address -> word
    hw,             \* the CPU: rsp, callee-saved registers, rip, FS base,
                    \* FPU/SIMD state, CR3
    cur,            \* the task the CPU is executing
    status,         \* per task: "new", "inited", "suspended" or "running"
    expect,         \* per task: the registers it is to resume with
    own,            \* per task: the thread pointer and extended state it owns
    sw,             \* record of the last TaskContext operation
    \* ---- construction of user contexts ----
    mk,             \* record of the last UserContext constructor call
    \* ---- the fixup table shared between cores ----
    core,           \* per core: the fixup_exception call it is in
    sort_pc         \* where init_exception_table stands

fixVars  == <<ex_table, table_sorted, tf, fix>>
slices   == <<IRQ, PAGE_FAULT, BREAK_HANDLER, DEBUG_HANDLER>>
regVars  == <<slices, ht, calls>>
trapVars == <<ktrap>>
userVars == <<arch, uctx, cpu, run, a64>>
swVars   == <<ctx, mem, hw, cur, status, expect, own, sw>>
ctorVars == <<mk>>
concVars == <<core, sort_pc>>
vars == <<fixVars, regVars, trapVars, userVars, swVars, ctorVars, concVars>>

---------------------------------------------------------------------------
(* Bounds of the model. *)

\* Largest `from` address of a table entry; frames take ips in 0..MaxFrom+1.
MaxFrom == 3
\* Largest number of entries in the exception table.
MaxTable == 3
\* Largest number of handlers registered, over all slices together.
MaxHandlers == 2
\* Largest number of table entries while the trap dispatcher is exercised.
MaxTrapTable == 1
\* Number of cores looking up the fixup table at the same time.
MaxCores == 2

---------------------------------------------------------------------------
(* The x86_64 TrapFrame (context.rs:9-36) and its accessors. *)

TrapFrameFields ==
    {"rax", "rcx", "rdx", "rbx", "rbp", "rsi", "rdi", "r8", "r9", "r10",
     "r11", "r12", "r13", "r14", "r15", "vector", "error_code", "rip", "cs",
     "rflags", "rsp", "ss"}

\* #[derive(Default)]: every field zero.
DefaultTrapFrame == [f \in TrapFrameFields |-> 0]

\* TrapFrame::ip
Ip(frame) == frame.rip

\* TrapFrame::set_ip
SetIp(frame, rip) == [frame EXCEPT !.rip = rip]

\* TrapFrame::sp
Sp(frame) == frame.rsp

\* TrapFrame::arg0
Arg0(frame) == frame.rdi


\* The frame a kernel-mode trap at instruction `ip` pushes: every other
\* field holds a value of its own, so that a stray write shows.
KernelFrame(ip, vector, error_code) ==
    [DefaultTrapFrame EXCEPT !.rip = ip, !.vector = vector,
                             !.error_code = error_code,
                             !.rax = 41, !.rbx = 42, !.rbp = 43, !.rdi = 44,
                             !.cs = 8, !.rflags = 2, !.rsp = 45, !.ss = 16]

---------------------------------------------------------------------------
(* The exception fixup table (trap.rs:88-123). *)

\* The addresses a table entry's `from` ranges over.
FromAddrs == 0..MaxFrom
\* The recovery addresses a table entry's `to` ranges over.
ToAddrs == {100, 101}
\* The instruction pointers a faulting frame ranges over: every `from`, and
\* one address above all of them.
IpAddrs == 0..(MaxFrom + 1)

\* struct ExceptionTableEntry { from, to }
ExceptionTableEntry == [from : FromAddrs, to : ToAddrs]

\* Every table the linker can lay down, in any order.
SeqsUpTo(S, n) == UNION {[1..k -> S] : k \in 0..n}
ExTables == SeqsUpTo(ExceptionTableEntry, MaxTable)

\* #[derive(PartialOrd, Ord)] on ExceptionTableEntry: lexicographic on
\* (from, to).
EntryLess(a, b) == a.from < b.from \/ (a.from = b.from /\ a.to < b.to)
EntryLeq(a, b) == a = b \/ EntryLess(a, b)

IsSorted(t) == \A i \in 1..(Len(t) - 1) : EntryLeq(t[i], t[i + 1])

\* Insert e into the sorted sequence t, keeping it sorted.
RECURSIVE InsertSorted(_, _)
InsertSorted(e, t) ==
    IF t = <<>> THEN <<e>>
    ELSE IF EntryLeq(e, Head(t)) THEN <<e>> \o t
    ELSE <<Head(t)>> \o InsertSorted(e, Tail(t))

\* slice::sort_unstable on the table: the ascending arrangement of its
\* entries (equal entries are indistinguishable, so it is unique).
RECURSIVE SortUnstable(_)
\* A sort that leaves the table as it was linked.
SortUnstableSkipped(t) == t

SortUnstable(t) ==
    IF t = <<>> THEN <<>> ELSE InsertSorted(Head(t), SortUnstable(Tail(t)))

\* Ordering of the closure |e| e.from.cmp(&self.ip())
CmpFrom(e, ip) ==
    IF e.from < ip THEN "Less" ELSE IF e.from = ip THEN "Equal" ELSE "Greater"

\* The loop of slice::binary_search_by: halves `size` keeping `base` at the
\* last probed element that is not Greater.  Indices are 0-based as in Rust.
RECURSIVE BinarySearchLoop(_, _, _, _)
BinarySearchLoop(entries, ip, base, size) ==
    IF size > 1
    THEN LET half == size \div 2
             mid == base + half
         IN  BinarySearchLoop(entries, ip,
                 IF CmpFrom(entries[mid + 1], ip) = "Greater" THEN base ELSE mid,
                 size - half)
    ELSE base

\* A binary search that accepts the nearest entry at or below ip.
BinarySearchRange(entries, ip) ==
    IF Len(entries) = 0 THEN [ok |-> FALSE, idx |-> 0]
    ELSE LET base == BinarySearchLoop(entries, ip, 0, Len(entries))
         IN  IF CmpFrom(entries[base + 1], ip) # "Greater"
             THEN [ok |-> TRUE, idx |-> base]
             ELSE [ok |-> FALSE, idx |-> base]

\* entries.binary_search_by(|e| e.from.cmp(&self.ip())): Ok(idx) or Err(idx).
BinarySearchBy(entries, ip) ==
    IF Len(entries) = 0 THEN [ok |-> FALSE, idx |-> 0]
    ELSE LET base == BinarySearchLoop(entries, ip, 0, Len(entries))
             cmp == CmpFrom(entries[base + 1], ip)
         IN  IF cmp = "Equal"
             THEN [ok |-> TRUE, idx |-> base]
             ELSE [ok |-> FALSE, idx |-> base + (IF cmp = "Less" THEN 1 ELSE 0)]

\* TrapFrame::fixup_exception: the frame afterwards and the value returned.
FixupException(entries, frame) ==
    LET r == BinarySearchBy(entries, Ip(frame))
    IN  IF r.ok
        THEN [frame |-> SetIp(frame, entries[r.idx + 1].to), ret |-> TRUE]
        ELSE [frame |-> frame, ret |-> FALSE]

NoFixup == [called |-> FALSE, sorted |-> FALSE, before |-> DefaultTrapFrame,
            ret |-> FALSE]

\* init_exception_table(): sorts the table in place, once.
InitExceptionTable ==
    /\ ~table_sorted
    /\ ex_table' = SortUnstable(ex_table)
    /\ table_sorted' = TRUE
    /\ UNCHANGED <<tf, fix, regVars, trapVars, userVars, swVars, ctorVars, concVars>>

\* A kernel frame faulting at some ip calls fixup_exception.
DoFixupException ==
    \E ip \in IpAddrs :
        LET frame == KernelFrame(ip, 14, 0)
            r == FixupException(ex_table, frame)
        IN  /\ tf' = r.frame
            /\ fix' = [called |-> TRUE, sorted |-> table_sorted,
                       before |-> frame, ret |-> r.ret]
            /\ UNCHANGED <<ex_table, table_sorted, regVars, trapVars, userVars, swVars, ctorVars, concVars>>

---------------------------------------------------------------------------
(* The handler registry (trap.rs:12-34). *)

\* A registered callback is known by what it answers: "yes" handles every
\* trap, "no" handles none.
HandlerKinds == {"yes", "no"}

\* The boolean a callback returns for the arguments it is called with.
Verdict(h, args) == h = "yes"

\* A dispatch that walks the whole slice, calling every entry and
\* answering for the last one.
HandleTrapAll(cat, slice, args) ==
    IF Len(slice) > 0
    THEN [calls |-> [i \in 1..Len(slice) |->
                        [cat |-> cat, idx |-> i, args |-> args]],
          ret |-> Verdict(slice[Len(slice)], args)]
    ELSE [calls |-> <<>>, ret |-> FALSE]

\* handle_trap!(cat, args): the callbacks invoked and the value of the
\* macro.  iter.next() yields the first entry of the slice, if any.
HandleTrap(cat, slice, args) ==
    IF Len(slice) > 0
    THEN [calls |-> <<[cat |-> cat, idx |-> 1, args |-> args]>>,
          ret |-> Verdict(slice[1], args)]
    ELSE [calls |-> <<>>, ret |-> FALSE]

\* What is remembered of one expansion of handle_trap!.
HtRecord(cat, slice, args, h) ==
    [used |-> TRUE, cat |-> cat, args |-> args, ret |-> h.ret]

NoHt == [used |-> FALSE, cat |-> "none", args |-> <<>>, ret |-> FALSE]

\* The slice a category names.
SliceOf(cat) ==
    CASE cat = "IRQ" -> IRQ
      [] cat = "PAGE_FAULT" -> PAGE_FAULT
      [] cat = "BREAK_HANDLER" -> BREAK_HANDLER
      [] cat = "DEBUG_HANDLER" -> DEBUG_HANDLER
      [] OTHER -> <<>>

\* The IRQ and PAGE_FAULT slices the linker can assemble: at most
\* MaxHandlers callbacks in all; no breakpoint or debug handler is linked.
RegistryInit ==
    \E n1 \in 0..MaxHandlers :
      \E n2 \in 0..(MaxHandlers - n1) :
        \E n3 \in 0..(MaxHandlers - n1 - n2) :
          \E n4 \in 0..(MaxHandlers - n1 - n2 - n3) :
            /\ IRQ \in [1..n1 -> HandlerKinds]
            /\ PAGE_FAULT \in [1..n2 -> HandlerKinds]
            /\ BREAK_HANDLER \in [1..n3 -> HandlerKinds]
            /\ DEBUG_HANDLER \in [1..n4 -> HandlerKinds]

---------------------------------------------------------------------------
(* The x86_64 kernel trap dispatcher (x86_64/trap.rs). *)

PAGE_FAULT_VECTOR == 14
DEBUG_VECTOR == 1
BREAKPOINT_VECTOR == 3
INVALID_OPCODE_VECTOR == 6
GENERAL_PROTECTION_FAULT_VECTOR == 13
LEGACY_SYSCALL_VECTOR == 128
IRQ_VECTOR_START == 32
IRQ_VECTOR_END == 255

\* Bit k of the word n.
Bit(n, k) == (n \div (2 ^ k)) % 2 = 1

\* PageFaultErrorCode: the bit positions the type knows.
PF_PROTECTION_VIOLATION == 0
PF_CAUSED_BY_WRITE == 1
PF_USER_MODE == 2
PF_MALFORMED_TABLE == 3
PF_INSTRUCTION_FETCH == 4
PF_PROTECTION_KEY == 5
PF_SHADOW_STACK == 6
PF_SGX == 15
PfKnownBits ==
    {PF_PROTECTION_VIOLATION, PF_CAUSED_BY_WRITE, PF_USER_MODE,
     PF_MALFORMED_TABLE, PF_INSTRUCTION_FETCH, PF_PROTECTION_KEY,
     PF_SHADOW_STACK, PF_SGX}

\* PageFaultErrorCode::from_bits_truncate: the known bits set in the word.
FromBitsTruncate(err_code) == {k \in PfKnownBits : Bit(err_code, k)}

\* (CAUSED_BY_WRITE | USER_MODE | INSTRUCTION_FETCH | PROTECTION_VIOLATION)
\*     .complement()
PfReservedBits ==
    PfKnownBits \ {PF_CAUSED_BY_WRITE, PF_USER_MODE, PF_INSTRUCTION_FETCH,
                   PF_PROTECTION_VIOLATION}

\* A decoder that accepts every error code.
ErrCodeToFlagsLax(err_code) ==
    LET code == FromBitsTruncate(err_code)
    IN  [ok |-> TRUE, err |-> 0,
         flags |-> (IF PF_CAUSED_BY_WRITE \in code THEN {"WRITE"} ELSE {"READ"})
                   \cup (IF PF_USER_MODE \in code THEN {"USER"} ELSE {})
                   \cup (IF PF_INSTRUCTION_FETCH \in code THEN {"EXECUTE"} ELSE {})]

\* err_code_to_flags: Ok(flags) or Err(err_code).
ErrCodeToFlags(err_code) ==
    LET code == FromBitsTruncate(err_code)
    IN  IF code \cap PfReservedBits # {}
        THEN [ok |-> FALSE, err |-> err_code, flags |-> {}]
        ELSE [ok |-> TRUE, err |-> 0,
              flags |-> (IF PF_CAUSED_BY_WRITE \in code THEN {"WRITE"} ELSE {"READ"})
                        \cup (IF PF_USER_MODE \in code THEN {"USER"} ELSE {})
                        \cup (IF PF_INSTRUCTION_FETCH \in code THEN {"EXECUTE"} ELSE {})]

\* What a handler of the dispatcher leaves behind: the frame, whether control
\* resumes or the kernel panics, the callbacks invoked, the last handle_trap!
\* and whether the fixup table was searched.
TrapResult(frame, outcome, h, searched) ==
    [frame |-> frame, outcome |-> outcome, calls |-> h.calls, ht |-> h.ht,
     searched |-> searched]

NoDispatch == [calls |-> <<>>, ht |-> NoHt]
Dispatched(cat, slice, args) ==
    LET h == HandleTrap(cat, slice, args)
    IN  [calls |-> h.calls, ht |-> HtRecord(cat, slice, args, h), ret |-> h.ret]

\* A page-fault handler that goes to the fixup table before the handlers.
HandlePageFaultFixupFirst(frame, cr2) ==
    LET d == ErrCodeToFlags(frame.error_code)
        f == FixupException(ex_table, frame)
        h == Dispatched("PAGE_FAULT", PAGE_FAULT, <<cr2, d.flags>>)
    IN  IF ~d.ok THEN TrapResult(frame, "panic", NoDispatch, FALSE)
        ELSE IF f.ret THEN TrapResult(f.frame, "resumed", NoDispatch, TRUE)
        ELSE IF h.ret THEN TrapResult(frame, "resumed", h, TRUE)
        ELSE TrapResult(frame, "panic", h, TRUE)

\* handle_page_fault(tf) with CR2 = cr2.
HandlePageFault(frame, cr2) ==
    LET d == ErrCodeToFlags(frame.error_code)
    IN  IF ~d.ok
        THEN TrapResult(frame, "panic", NoDispatch, FALSE)
        ELSE LET h == Dispatched("PAGE_FAULT", PAGE_FAULT, <<cr2, d.flags>>)
             IN  IF h.ret
                 THEN TrapResult(frame, "resumed", h, FALSE)
                 ELSE LET f == FixupException(ex_table, frame)
                      IN  IF f.ret
                          THEN TrapResult(f.frame, "resumed", h, TRUE)
                          ELSE TrapResult(frame, "panic", h, TRUE)

\* A handle_breakpoint that panics when the trap is not handled.
HandleBreakpointMustHandle(frame) ==
    LET h == Dispatched("BREAK_HANDLER", BREAK_HANDLER, <<"tf", 0>>)
    IN  TrapResult(frame, IF h.ret THEN "resumed" ELSE "panic", h, FALSE)

\* handle_breakpoint(tf): returns whatever the handler answers.
HandleBreakpoint(frame) ==
    TrapResult(frame, "resumed",
               Dispatched("BREAK_HANDLER", BREAK_HANDLER, <<"tf", 0>>), FALSE)

\* handle_debug(tf): returns whatever the handler answers.
HandleDebug(frame) ==
    TrapResult(frame, "resumed",
               Dispatched("DEBUG_HANDLER", DEBUG_HANDLER, <<"tf">>), FALSE)

\* A dispatcher that panics on an interrupt no handler takes.
X86TrapHandlerIrqMustHandle(frame, cr2) ==
    LET v == frame.vector % 256
    IN  IF v = PAGE_FAULT_VECTOR THEN HandlePageFault(frame, cr2)
        ELSE IF v = DEBUG_VECTOR THEN HandleDebug(frame)
        ELSE IF v = BREAKPOINT_VECTOR THEN HandleBreakpoint(frame)
        ELSE IF v = GENERAL_PROTECTION_FAULT_VECTOR
             THEN TrapResult(frame, "panic", NoDispatch, FALSE)
        ELSE IF v >= IRQ_VECTOR_START /\ v <= IRQ_VECTOR_END
             THEN LET h == Dispatched("IRQ", IRQ, <<frame.vector>>)
                  IN  TrapResult(frame, IF h.ret THEN "resumed" ELSE "panic",
                                 h, FALSE)
        ELSE TrapResult(frame, "panic", NoDispatch, FALSE)

\* A dispatcher that treats a general protection fault as a page fault.
X86TrapHandlerGpAsPageFault(frame, cr2) ==
    LET v == frame.vector % 256
    IN  IF v = PAGE_FAULT_VECTOR \/ v = GENERAL_PROTECTION_FAULT_VECTOR
        THEN HandlePageFault(frame, cr2)
        ELSE IF v = DEBUG_VECTOR THEN HandleDebug(frame)
        ELSE IF v = BREAKPOINT_VECTOR THEN HandleBreakpoint(frame)
        ELSE IF v >= IRQ_VECTOR_START /\ v <= IRQ_VECTOR_END
             THEN TrapResult(frame, "resumed",
                             Dispatched("IRQ", IRQ, <<frame.vector>>), FALSE)
        ELSE TrapResult(frame, "panic", NoDispatch, FALSE)

\* x86_trap_handler(tf): the match on tf.vector as u8, arm by arm.
X86TrapHandler(frame, cr2) ==
    LET v == frame.vector % 256
    IN  IF v = PAGE_FAULT_VECTOR THEN HandlePageFault(frame, cr2)
        ELSE IF v = DEBUG_VECTOR THEN HandleDebug(frame)
        ELSE IF v = BREAKPOINT_VECTOR THEN HandleBreakpoint(frame)
        ELSE IF v = GENERAL_PROTECTION_FAULT_VECTOR
             THEN TrapResult(frame, "panic", NoDispatch, FALSE)
        ELSE IF v >= IRQ_VECTOR_START /\ v <= IRQ_VECTOR_END
             THEN TrapResult(frame, "resumed",
                             Dispatched("IRQ", IRQ, <<frame.vector>>), FALSE)
        ELSE TrapResult(frame, "panic", NoDispatch, FALSE)

\* The vectors a kernel-mode trap is taken with: both ends of every arm of
\* the dispatcher's match.
KernelVectors == {0, 1, 2, 3, 6, 8, 13, 14, 31, 32, 127, 128, 255}

\* Page-fault error codes: the four decodable bits in several combinations,
\* each reserved bit (SGX, bit 15, among them), and a bit the type does not
\* know (bit 7).
ErrCodes == {0, 1, 2, 3, 4, 16, 22, 8, 10, 32, 64, 128, 32768}

\* Faulting data addresses (CR2).
FaultAddrs == {200, 201}

NoTrap == [called |-> FALSE, before |-> DefaultTrapFrame, cr2 |-> 0,
           outcome |-> "none", searched |-> FALSE]

\* A trap is taken in kernel mode: the entry stub pushes the frame and calls
\* x86_trap_handler.  A panic halts the kernel: nothing runs after it.
KernelTrap ==
    /\ ktrap.outcome = "none"
    /\ \E v \in KernelVectors :
         \E ip \in (IF v = PAGE_FAULT_VECTOR THEN IpAddrs ELSE {0}),
            err \in (IF v = PAGE_FAULT_VECTOR THEN ErrCodes ELSE {0}),
            cr2 \in (IF v = PAGE_FAULT_VECTOR THEN FaultAddrs ELSE {0}) :
           LET frame == KernelFrame(ip, v, err)
               r == X86TrapHandler(frame, cr2)
           IN  /\ tf' = r.frame
               /\ calls' = r.calls
               /\ ht' = r.ht
               /\ ktrap' = [called |-> TRUE, before |-> frame, cr2 |-> cr2,
                            outcome |-> r.outcome, searched |-> r.searched]
               /\ UNCHANGED <<ex_table, table_sorted, fix, slices, userVars, swVars, ctorVars, concVars>>

\* The handler returned: the entry stub pops the frame and resumes at its
\* rip; the frame is gone.
TrapReturn ==
    /\ ktrap.outcome = "resumed"
    /\ tf' = DefaultTrapFrame
    /\ calls' = <<>>
    /\ ht' = NoHt
    /\ ktrap' = NoTrap
    /\ UNCHANGED <<ex_table, table_sorted, fix, slices, userVars, swVars, ctorVars, concVars>>

---------------------------------------------------------------------------
(* Return reasons (trap.rs:56-64). *)

NoInfo == [trap_vector |-> 0, rip |-> 0, error_code |-> 0, cr4 |-> 0,
           stval |-> 0]

\* enum ReturnReason, and "none" while run() has returned nothing.
Reason(kind) == [kind |-> kind, vaddr |-> 0, flags |-> {}, info |-> NoInfo]
ReasonPageFault(vaddr, flags) ==
    [kind |-> "PageFault", vaddr |-> vaddr, flags |-> flags, info |-> NoInfo]
ReasonException(info) ==
    [kind |-> "Exception", vaddr |-> 0, flags |-> {}, info |-> info]

---------------------------------------------------------------------------
(* x86_64 UserContext (x86_64/uspace.rs). *)

UCODE64_SELECTOR == 51
UDATA_SELECTOR == 43
\* RFlags::INTERRUPT_FLAG
INTERRUPT_FLAG == 512

\* The UserContext's frame: a TrapFrame with the thread pointer slot the
\* fs-base switch uses.
UserFrameFields == TrapFrameFields \cup {"fs_base"}

\* UserContext::new with the argument in the second argument register.
UserContextNewArgInRsi(entry, ustack_top, arg0) ==
    [[f \in UserFrameFields |-> 0] EXCEPT
        !.rsi = arg0, !.rip = entry, !.cs = UCODE64_SELECTOR,
        !.rflags = INTERRUPT_FLAG, !.rsp = ustack_top, !.ss = UDATA_SELECTOR]

\* UserContext::new(entry, ustack_top, arg0)
UserContextNew(entry, ustack_top, arg0) ==
    [[f \in UserFrameFields |-> 0] EXCEPT
        !.rdi = arg0, !.rip = entry, !.cs = UCODE64_SELECTOR,
        !.rflags = INTERRUPT_FLAG, !.rsp = ustack_top, !.ss = UDATA_SELECTOR]

\* TrapFrame::is_user: the frame's code selector asks for ring 3.
IsUser(frame) == frame.cs % 4 = 3

\* switch_to_user_fs_base(tf): the cpu afterwards.
SwitchToUserFsBase(frame, c) ==
    IF IsUser(frame)
    THEN [c EXCEPT !.KERNEL_FS_BASE = c.thread_pointer,
                   !.thread_pointer = frame.fs_base]
    ELSE c

\* A switch_to_kernel_fs_base that saves the user's thread pointer and
\* leaves it installed.
SwitchToKernelFsBaseNoRestore(frame, c) ==
    IF IsUser(frame)
    THEN [frame |-> [frame EXCEPT !.fs_base = c.thread_pointer], cpu |-> c]
    ELSE [frame |-> frame, cpu |-> c]

\* switch_to_kernel_fs_base(tf): the frame and the cpu afterwards.
SwitchToKernelFsBase(frame, c) ==
    IF IsUser(frame)
    THEN [frame |-> [frame EXCEPT !.fs_base = c.thread_pointer],
          cpu |-> [c EXCEPT !.thread_pointer = c.KERNEL_FS_BASE]]
    ELSE [frame |-> frame, cpu |-> c]

\* A classification that takes the IRQ range before the syscall vector.
ClassifyIrqFirst(frame, c) ==
    LET v == frame.vector % 256
        d == ErrCodeToFlags(frame.error_code)
    IN  IF v = PAGE_FAULT_VECTOR
        THEN IF d.ok
             THEN [panic |-> FALSE, ret |-> ReasonPageFault(c.cr2, d.flags),
                   calls |-> <<>>, ht |-> NoHt]
             ELSE [panic |-> TRUE, ret |-> Reason("none"), calls |-> <<>>,
                   ht |-> NoHt]
        ELSE IF v >= IRQ_VECTOR_START /\ v <= IRQ_VECTOR_END
        THEN LET h == Dispatched("IRQ", IRQ, <<frame.vector>>)
             IN  [panic |-> FALSE, ret |-> Reason("Interrupt"),
                  calls |-> h.calls, ht |-> h.ht]
        ELSE IF v = LEGACY_SYSCALL_VECTOR
        THEN [panic |-> FALSE, ret |-> Reason("Syscall"), calls |-> <<>>,
              ht |-> NoHt]
        ELSE [panic |-> FALSE,
              ret |-> ReasonException([NoInfo EXCEPT
                          !.trap_vector = frame.vector, !.rip = frame.rip,
                          !.error_code = frame.error_code, !.cr4 = c.cr4]),
              calls |-> <<>>, ht |-> NoHt]

\* The match of run() on tf.vector as u8, arm by arm: whether it panics,
\* the reason it yields, the callbacks it invokes.
Classify(frame, c) ==
    LET v == frame.vector % 256
        d == ErrCodeToFlags(frame.error_code)
    IN  IF v = PAGE_FAULT_VECTOR
        THEN IF d.ok
             THEN [panic |-> FALSE, ret |-> ReasonPageFault(c.cr2, d.flags),
                   calls |-> <<>>, ht |-> NoHt]
             ELSE [panic |-> TRUE, ret |-> Reason("none"), calls |-> <<>>,
                   ht |-> NoHt]
        ELSE IF v = LEGACY_SYSCALL_VECTOR
        THEN [panic |-> FALSE, ret |-> Reason("Syscall"), calls |-> <<>>,
              ht |-> NoHt]
        ELSE IF v >= IRQ_VECTOR_START /\ v <= IRQ_VECTOR_END
        THEN LET h == Dispatched("IRQ", IRQ, <<frame.vector>>)
             IN  [panic |-> FALSE, ret |-> Reason("Interrupt"),
                  calls |-> h.calls, ht |-> h.ht]
        ELSE [panic |-> FALSE,
              ret |-> ReasonException([NoInfo EXCEPT
                          !.trap_vector = frame.vector, !.rip = frame.rip,
                          !.error_code = frame.error_code, !.cr4 = c.cr4]),
              calls |-> <<>>, ht |-> NoHt]

\* A kind() that tells no vector from another.
X86ExceptionKindOther(info) == "Other"

\* ExceptionInfo::kind (x86_64)
X86ExceptionKind(info) ==
    LET v == info.trap_vector % 256
    IN  IF v = BREAKPOINT_VECTOR THEN "Breakpoint"
        ELSE IF v = INVALID_OPCODE_VECTOR THEN "IllegalInstruction"
        ELSE "Other"

\* The vectors user mode comes back with: both ends of every arm of the
\* match, and the syscall vector's neighbours inside the IRQ range.
UserVectors == {0, 1, 3, 6, 13, 14, 31, 32, 127, 128, 129, 255}
\* User instruction pointers at the trap.
UserIps == {300, 301}
\* Thread pointers user mode leaves in the FS base.
UserFsBases == {70, 71}
\* The kernel's own thread pointer.
KernelFsBase == 60

\* A frame run() can be given that is not a user-mode frame: the kernel's
\* code and data selectors.
KernelSelectorsFrame ==
    [UserContextNew(300, 400, 7) EXCEPT !.cs = 8, !.ss = 16]

\* No run() in progress and none made yet.
RunIdle ==
    [pc |-> "idle", ret |-> Reason("none"), tp0 |-> 0, fs0 |-> 0, ufs |-> 0]

X86Cpu == [irqs |-> TRUE, thread_pointer |-> KernelFsBase,
           KERNEL_FS_BASE |-> 0, cr2 |-> 0, cr4 |-> 32]

\* run() is entered: nothing returned yet; the thread pointer and the
\* frame's fs_base as they are now, for later comparison.
RunEntered ==
    [pc |-> "irqs_off", ret |-> Reason("none"),
     tp0 |-> cpu.thread_pointer, fs0 |-> uctx.fs_base, ufs |-> 0]

\* run() that leaves the interrupt flag as it finds it.
RunKeepIrqs ==
    /\ arch = "x86_64" /\ run.pc = "idle"
    /\ run' = RunEntered
    /\ calls' = <<>>
    /\ ht' = NoHt
    /\ UNCHANGED <<fixVars, slices, trapVars, arch, uctx, cpu, a64, swVars,
                   ctorVars, concVars>>

\* run(), step by step.  crate::asm::disable_irqs()
RunDisableIrqs ==
    /\ arch = "x86_64" /\ run.pc = "idle"
    /\ cpu' = [cpu EXCEPT !.irqs = FALSE]
    /\ run' = RunEntered
    /\ calls' = <<>>
    /\ ht' = NoHt
    /\ UNCHANGED <<fixVars, slices, trapVars, arch, uctx, a64, swVars, ctorVars, concVars>>

\* switch_to_user_fs_base(tf)
RunSwitchToUserFsBase ==
    /\ arch = "x86_64" /\ run.pc = "irqs_off"
    /\ cpu' = SwitchToUserFsBase(uctx, cpu)
    /\ run' = [run EXCEPT !.pc = "fs_user"]
    /\ UNCHANGED <<fixVars, regVars, trapVars, arch, uctx, a64, swVars, ctorVars, concVars>>

\* enter_user(tf): the frame's registers are loaded and iretq leaves for
\* user mode, taking IF from the frame's rflags.
EnterUser ==
    /\ arch = "x86_64" /\ run.pc = "fs_user"
    /\ cpu' = [cpu EXCEPT !.irqs = Bit(uctx.rflags, 9)]
    /\ run' = [run EXCEPT !.pc = "user"]
    /\ UNCHANGED <<fixVars, regVars, trapVars, arch, uctx, a64, swVars, ctorVars, concVars>>

\* User mode runs until a trap, fault, interrupt or syscall brings control
\* back: the entry stub stores the vector, the error code and the user rip
\* in the frame, with interrupts off; a page fault leaves its address in CR2.
UserTrap ==
    /\ arch = "x86_64" /\ run.pc = "user"
    /\ \E v \in UserVectors, ip \in UserIps, fs \in UserFsBases :
         \E err \in (IF v = PAGE_FAULT_VECTOR THEN ErrCodes ELSE {0}),
            cr2 \in (IF v = PAGE_FAULT_VECTOR THEN FaultAddrs ELSE {cpu.cr2}) :
           /\ uctx' = [uctx EXCEPT !.vector = v, !.error_code = err,
                                   !.rip = ip]
           /\ cpu' = [cpu EXCEPT !.irqs = FALSE, !.cr2 = cr2,
                                 !.thread_pointer = fs]
           /\ run' = [run EXCEPT !.pc = "trapped", !.ufs = fs]
    /\ UNCHANGED <<fixVars, regVars, trapVars, arch, a64, swVars, ctorVars, concVars>>

\* switch_to_kernel_fs_base(tf)
RunSwitchToKernelFsBase ==
    /\ arch = "x86_64" /\ run.pc = "trapped"
    /\ LET r == SwitchToKernelFsBase(uctx, cpu)
       IN  uctx' = r.frame /\ cpu' = r.cpu
    /\ run' = [run EXCEPT !.pc = "fs_kernel"]
    /\ UNCHANGED <<fixVars, regVars, trapVars, arch, a64, swVars, ctorVars, concVars>>

\* let ret = match tf.vector as u8 { ... }: a panic halts the kernel.
RunClassify ==
    /\ arch = "x86_64" /\ run.pc = "fs_kernel"
    /\ LET r == Classify(uctx, cpu)
       IN  /\ run' = [run EXCEPT
                         !.pc = IF r.panic THEN "panic" ELSE "classified",
                         !.ret = r.ret]
           /\ calls' = r.calls
           /\ ht' = r.ht
    /\ UNCHANGED <<fixVars, slices, trapVars, arch, uctx, cpu, a64, swVars, ctorVars, concVars>>

\* crate::asm::enable_irqs(); ret
RunEnableIrqs ==
    /\ arch = "x86_64" /\ run.pc = "classified"
    /\ cpu' = [cpu EXCEPT !.irqs = TRUE]
    /\ run' = [run EXCEPT !.pc = "idle"]
    /\ UNCHANGED <<fixVars, regVars, trapVars, arch, uctx, a64, swVars, ctorVars, concVars>>

---------------------------------------------------------------------------
(* aarch64 UserContext::run (aarch64/uspace.rs). *)

\* ESR_EL1::EC values
EC_Unknown == 0
EC_IllegalExecutionState == 14
EC_SVC64 == 21
EC_InstrAbortLowerEL == 32
EC_PCAlignmentFault == 34
EC_DataAbortLowerEL == 36
EC_SPAlignmentFault == 38
EC_Brk64 == 60

\* excp_mask(kind, source) = 1 << (source * 4 + kind)
ExcpMask(kind, source) == 2 ^ (source * 4 + kind)
\* ExceptionSource::LowerAarch64
LowerAarch64 == 2
TASK_EXIT_0_2 == ExcpMask(0, LowerAarch64)
TASK_EXIT_1_2 == ExcpMask(1, LowerAarch64)

\* matches!(iss & 0b111100, 0b0100 | 0b1100)
\* A test of the fault status code that lets translation faults alone
\* through.
IsTranslationOnly(iss) ==
    LET fsc == ((iss \div 4) % 16) * 4 IN fsc = 4

\* matches!(iss & 0b111100, 0b0100 | 0b1100)
IsTranslationOrPermission(iss) ==
    LET fsc == ((iss \div 4) % 16) * 4 IN fsc = 4 \/ fsc = 12

\* handle_instruction_abort_lower(tf, iss, is_user)
HandleInstructionAbortLower(iss, far, is_user) ==
    LET access_flags == {"EXECUTE"} \cup (IF is_user THEN {"USER"} ELSE {})
    IN  IF ~IsTranslationOrPermission(iss)
        THEN [panic |-> TRUE, ret |-> Reason("none")]
        ELSE [panic |-> FALSE, ret |-> ReasonPageFault(far, access_flags)]

\* A data-abort handler that reads WnR alone.
HandleDataAbortLowerWnrOnly(iss, far, is_user) ==
    LET access_flags == (IF Bit(iss, 6) THEN {"WRITE"} ELSE {"READ"})
                        \cup (IF is_user THEN {"USER"} ELSE {})
    IN  IF ~IsTranslationOrPermission(iss)
        THEN [panic |-> TRUE, ret |-> Reason("none")]
        ELSE [panic |-> FALSE, ret |-> ReasonPageFault(far, access_flags)]

\* handle_data_abort_lower(tf, iss, is_user)
HandleDataAbortLower(iss, far, is_user) ==
    LET wnr == Bit(iss, 6)
        cm == Bit(iss, 8)
        access_flags == (IF wnr /\ ~cm THEN {"WRITE"} ELSE {"READ"})
                        \cup (IF is_user THEN {"USER"} ELSE {})
    IN  IF ~IsTranslationOrPermission(iss)
        THEN [panic |-> TRUE, ret |-> Reason("none")]
        ELSE [panic |-> FALSE, ret |-> ReasonPageFault(far, access_flags)]

\* The match of run() on ESR_EL1.EC, with ISS and FAR_EL1 as the registers
\* hold them after task_in returns.
A64Classify(esr, far) ==
    IF esr.ec = EC_SVC64 THEN [panic |-> FALSE, ret |-> Reason("Syscall")]
    ELSE IF esr.ec = EC_InstrAbortLowerEL
         THEN HandleInstructionAbortLower(esr.iss, far, TRUE)
    ELSE IF esr.ec = EC_DataAbortLowerEL
         THEN HandleDataAbortLower(esr.iss, far, TRUE)
    ELSE [panic |-> FALSE, ret |-> Reason("Unknown")]

\* ExceptionInfo::kind (aarch64)
A64ExceptionKind(info) == "Other"

\* ReturnReason::from_mask
FromMask(mask) ==
    IF mask = ExcpMask(0, 1) \/ mask = TASK_EXIT_0_2 THEN Reason("Syscall")
    ELSE IF mask = ExcpMask(1, 1) \/ mask = TASK_EXIT_1_2 THEN Reason("Interrupt")
    ELSE Reason("Unknown")

\* Exception classes user mode can raise.
A64ECs == {EC_Unknown, EC_IllegalExecutionState, EC_SVC64,
           EC_InstrAbortLowerEL, EC_PCAlignmentFault, EC_DataAbortLowerEL,
           EC_SPAlignmentFault, EC_Brk64}
\* Fault status codes: an address-size fault, translation faults at level
\* 0 and 3, an access-flag fault, permission faults at level 0, 1 and 3, a
\* synchronous external abort, an alignment fault.
A64Fscs == {1, 4, 7, 9, 12, 13, 15, 16, 33}
\* ISS of an abort: the status code, WnR (bit 6), CM (bit 8).
A64AbortIss == {fsc + 64 * w + 256 * c : fsc \in A64Fscs, w \in {0, 1}, c \in {0, 1}}
A64Aborts == {EC_InstrAbortLowerEL, EC_DataAbortLowerEL}

\* Why user mode was left: a synchronous exception, which writes ESR_EL1
\* (and FAR_EL1 for an abort), or an interrupt, which writes neither.
A64Causes ==
    {[kind |-> "sync", ec |-> ec, iss |-> iss, far |-> far] :
        ec \in A64Aborts, iss \in A64AbortIss, far \in FaultAddrs}
    \cup {[kind |-> "sync", ec |-> ec, iss |-> 0, far |-> 0] :
            ec \in A64ECs \ A64Aborts}
    \cup {[kind |-> "irq", ec |-> 0, iss |-> 0, far |-> 0]}

NoCause == [kind |-> "none", ec |-> 0, iss |-> 0, far |-> 0]

\* run(): task_in(base) enters user mode and comes back with a mask, which
\* is dropped; the reason is then read off ESR_EL1 and FAR_EL1.  A panic
\* halts the kernel.
A64Run ==
    /\ arch = "aarch64" /\ a64.state # "panic"
    /\ \E c \in A64Causes :
         LET esr == IF c.kind = "sync" THEN [ec |-> c.ec, iss |-> c.iss]
                    ELSE a64.esr
             far == IF c.kind = "sync" /\ c.ec \in A64Aborts THEN c.far
                    ELSE a64.far
             r == A64Classify(esr, far)
         IN  a64' = [esr |-> esr, far |-> far, cause |-> c,
                     mask |-> IF c.kind = "sync" THEN TASK_EXIT_0_2
                              ELSE TASK_EXIT_1_2,
                     state |-> IF r.panic THEN "panic" ELSE "returned",
                     ret |-> r.ret]
    /\ calls' = <<>>
    /\ ht' = NoHt
    /\ UNCHANGED <<fixVars, slices, trapVars, arch, uctx, cpu, run, swVars, ctorVars, concVars>>

---------------------------------------------------------------------------
(* x86_64 TaskContext and switch_to (x86_64/context.rs:145-352). *)

\* Largest number of tasks.
MaxTasks == 2

Tasks == 1..MaxTasks

\* The task that is running when the kernel boots; its context is filled
\* by its first switch_to.
BootTask == 1

\* ContextSwitchFrame, #[repr(C)]: the fields in ascending address order.
ContextSwitchFrameFields == <<"r15", "r14", "r13", "r12", "rbx", "rbp", "rip">>

ContextSwitchFrameSize == 8 * Len(ContextSwitchFrameFields)

ContextSwitchFrameDefault(entry) ==
    [r15 |-> 0, r14 |-> 0, r13 |-> 0, r12 |-> 0, rbx |-> 0, rbp |-> 0,
     rip |-> entry]

\* The kernel stack given to task t: 16-byte aligned top, and room for the
\* frame of context_switch below the deepest caller.
KStackTop(t) == 1024 * t

StackWords == Len(ContextSwitchFrameFields) + 2

StackAddrs == { KStackTop(t) - 8 * i : t \in Tasks, i \in 1..StackWords }

\* The stack pointer of the boot task while it runs.
BootRsp == KStackTop(BootTask) - 16

KernelPageTable == 1

PageTableRoots == {KernelPageTable, 2}

\* ExtendedState::default(): the FXSAVE area, zero but for fcw, ftw, mxcsr.
ExtendedStateDefault ==
    [fcw |-> 895, ftw |-> 65535, mxcsr |-> 8064, xmm |-> 0]

\* TaskContext::new().
TaskContextNew ==
    [kstack_top |-> 0, rsp |-> 0, fs_base |-> 0,
     cr3 |-> KernelPageTable, ext_state |-> ExtendedStateDefault]

\* core::ptr::write(frame_ptr, frame): the fields at ascending addresses.
WriteFrame(m, frame_ptr, frame) ==
    [a \in DOMAIN m |->
        IF \E i \in 1..Len(ContextSwitchFrameFields) :
               a = frame_ptr + 8 * (i - 1)
        THEN LET i == CHOOSE j \in 1..Len(ContextSwitchFrameFields) :
                          a = frame_ptr + 8 * (j - 1)
             IN  frame[ContextSwitchFrameFields[i]]
        ELSE m[a]]

\* An init that puts the frame right at the top of the stack.
TaskContextInitNoPad(c, m, entry, kstack_top, tls_area) ==
    LET frame_ptr == kstack_top - ContextSwitchFrameSize
    IN  [ctx |-> [c EXCEPT !.rsp = frame_ptr,
                           !.kstack_top = kstack_top,
                           !.fs_base = tls_area],
         mem |-> WriteFrame(m, frame_ptr, ContextSwitchFrameDefault(entry))]

\* TaskContext::init(entry, kstack_top, tls_area): the context and the
\* stack memory afterwards.
TaskContextInit(c, m, entry, kstack_top, tls_area) ==
    LET frame_ptr == (kstack_top - 8) - ContextSwitchFrameSize
    IN  [ctx |-> [c EXCEPT !.rsp = frame_ptr,
                           !.kstack_top = kstack_top,
                           !.fs_base = tls_area],
         mem |-> WriteFrame(m, frame_ptr, ContextSwitchFrameDefault(entry))]

\* TaskContext::set_page_table_root(cr3).
SetPageTableRootOf(c, cr3) == [c EXCEPT !.cr3 = cr3]

\* context_switch: the registers in the order pushed, and in the order
\* popped.
PushOrder == <<"rbp", "rbx", "r12", "r13", "r14", "r15">>

PopOrderReversed == <<"rbp", "rbx", "r12", "r13", "r14", "r15">>

PopOrder == <<"r15", "r14", "r13", "r12", "rbx", "rbp">>

RECURSIVE Push(_, _, _, _)
Push(m, sp, names, h) ==
    IF names = <<>>
    THEN [mem |-> m, rsp |-> sp]
    ELSE Push([m EXCEPT ![sp - 8] = h[Head(names)]], sp - 8, Tail(names), h)

RECURSIVE Pop(_, _, _, _)
Pop(m, sp, names, h) ==
    IF names = <<>>
    THEN [h EXCEPT !.rsp = sp]
    ELSE Pop(m, sp + 8, Tail(names), [h EXCEPT ![Head(names)] = m[sp]])

\* call context_switch; push x6; mov [rdi], rsp; mov rsp, [rsi]; pop x6;
\* ret.  ra is the return address the call pushes, next_rsp the word at
\* [rsi].  Gives the CPU, the memory and the word stored at [rdi].
ContextSwitch(h, m, next_rsp, ra) ==
    LET called == [m EXCEPT ![h.rsp - 8] = ra]
        pushed == Push(called, h.rsp - 8, PushOrder, h)
        popped == Pop(pushed.mem, next_rsp, PopOrder, h)
    IN  [hw  |-> [popped EXCEPT !.rip = pushed.mem[popped.rsp],
                                !.rsp = popped.rsp + 8],
         mem |-> pushed.mem,
         current_stack |-> pushed.rsp]

\* switch_to without the comparison of roots: CR3 always written.
WriteRootAlways(self_cr3, next_cr3) == TRUE

\* `if next_ctx.cr3 != self.cr3`.
WriteRoot(self_cr3, next_cr3) == next_cr3 # self_cr3

\* TaskContext::switch_to(&mut c[me], &c[next]) called from ra: the
\* contexts, the CPU, the memory, and the hardware accesses in order.
\* A switch_to that installs the next task's thread pointer before it reads
\* the outgoing one's.
SwitchToOfWriteTpFirst(c, h, m, me, next, ra) ==
    LET c1 == [c EXCEPT ![me].ext_state = h.fpu]
        h1 == [h EXCEPT !.fpu = c1[next].ext_state]
        h2 == [h1 EXCEPT !.thread_pointer = c1[next].fs_base]
        c2 == [c1 EXCEPT ![me].fs_base = h2.thread_pointer]
        wr == WriteRoot(c2[me].cr3, c2[next].cr3)
        h3 == IF wr THEN [h2 EXCEPT !.cr3 = c2[next].cr3] ELSE h2
        cs == ContextSwitch(h3, m, c2[next].rsp, ra)
    IN  [ctx |-> [c2 EXCEPT ![me].rsp = cs.current_stack],
         hw  |-> cs.hw,
         mem |-> cs.mem,
         steps |-> <<"fxsave", "fxrstor", "read_thread_pointer",
                     "write_thread_pointer">>
                   \o (IF wr THEN <<"write_user_page_table">> ELSE <<>>)
                   \o <<"context_switch">>]

SwitchToOf(c, h, m, me, next, ra) ==
    LET c1 == [c EXCEPT ![me].ext_state = h.fpu]
        h1 == [h EXCEPT !.fpu = c1[next].ext_state]
        c2 == [c1 EXCEPT ![me].fs_base = h1.thread_pointer]
        h2 == [h1 EXCEPT !.thread_pointer = c2[next].fs_base]
        wr == WriteRoot(c2[me].cr3, c2[next].cr3)
        h3 == IF wr THEN [h2 EXCEPT !.cr3 = c2[next].cr3] ELSE h2
        cs == ContextSwitch(h3, m, c2[next].rsp, ra)
    IN  [ctx |-> [c2 EXCEPT ![me].rsp = cs.current_stack],
         hw  |-> cs.hw,
         mem |-> cs.mem,
         steps |-> <<"fxsave", "fxrstor", "read_thread_pointer",
                     "write_thread_pointer">>
                   \o (IF wr THEN <<"write_user_page_table">> ELSE <<>>)
                   \o <<"context_switch">>]

CalleeSaved == {"rbp", "rbx", "r12", "r13", "r14", "r15"}

\* What a task resumes with: instruction pointer, stack pointer and the
\* callee-saved registers.
ResumeFields == CalleeSaved \cup {"rip", "rsp"}

Resume(h) == [f \in ResumeFields |-> h[f]]

NoResume == [f \in ResumeFields |-> -1]

Entries == {600, 601}
RetAddrs == {700, 701}
TlsArea(t) == 80 + t

\* The registers of task t once it has computed: every callee-saved
\* register of every task holds a different value, and so does the FPU.
Computed(h, t) ==
    [h EXCEPT !.rbp = 10 * t + 1, !.rbx = 10 * t + 2, !.r12 = 10 * t + 3,
              !.r13 = 10 * t + 4, !.r14 = 10 * t + 5, !.r15 = 10 * t + 6,
              !.fpu = [h.fpu EXCEPT !.xmm = t]]

BootCpu ==
    [rsp |-> BootRsp, rbp |-> 0, rbx |-> 0, r12 |-> 0, r13 |-> 0, r14 |-> 0,
     r15 |-> 0, rip |-> 500, thread_pointer |-> TlsArea(BootTask),
     fpu |-> ExtendedStateDefault, cr3 |-> KernelPageTable]

\* The thread pointer and the extended state installed on the cpu, which
\* belong to the task running on it.
Owned(h) == [thread_pointer |-> h.thread_pointer, fpu |-> h.fpu]

\* The tasks that can be switched to: set up by init, or switched away from.
Ready == {"inited", "suspended"}

\* The record of a switch_to from task `from` to task `to`.
SwitchRecord(from, to, steps) ==
    [last |-> "switch", from |-> from, to |-> to, was |-> status[to],
     steps |-> steps, cr3_before |-> hw.cr3,
     round |-> (sw.last = "switch" /\ sw.from = to /\ sw.to = from)]

\* The record of any other operation.
OpRecord(op) ==
    [last |-> op, from |-> 0, to |-> 0, was |-> "none", steps |-> <<>>,
     cr3_before |-> hw.cr3, round |-> FALSE]

\* init(entry, kstack_top, tls_area) on a fresh context.
TaskInit ==
    \E t \in Tasks \ {cur}, entry \in Entries :
        /\ status[t] = "new"
        /\ LET r == TaskContextInit(ctx[t], mem, entry, KStackTop(t),
                                    TlsArea(t))
           IN  /\ ctx' = [ctx EXCEPT ![t] = r.ctx]
               /\ mem' = r.mem
               /\ expect' = [expect EXCEPT ![t] =
                                [f \in ResumeFields |->
                                    IF f = "rip" THEN entry
                                    ELSE IF f = "rsp" THEN KStackTop(t) - 8
                                    ELSE 0]]
               /\ own' = [own EXCEPT ![t] =
                             [thread_pointer |-> TlsArea(t),
                              fpu |-> ExtendedStateDefault]]
        /\ status' = [status EXCEPT ![t] = "inited"]
        /\ sw' = OpRecord("init")
        /\ UNCHANGED <<hw, cur>>
        /\ UNCHANGED <<fixVars, regVars, trapVars, userVars, ctorVars, concVars>>

\* set_page_table_root(root) on any task's context, the running one's
\* included.
SetPageTableRoot ==
    \E t \in Tasks, root \in PageTableRoots :
        /\ ctx[t].cr3 # root
        /\ ctx' = [ctx EXCEPT ![t] = SetPageTableRootOf(ctx[t], root)]
        /\ sw' = OpRecord("set_root")
        /\ UNCHANGED <<mem, hw, cur, status, expect, own>>
        /\ UNCHANGED <<fixVars, regVars, trapVars, userVars, ctorVars, concVars>>

\* The running task computes: its callee-saved registers and its FPU
\* state change from what it started with.
Compute ==
    /\ hw' = Computed(hw, cur)
    /\ hw' # hw
    /\ sw' = OpRecord("compute")
    /\ UNCHANGED <<ctx, mem, cur, status, expect, own>>
    /\ UNCHANGED <<fixVars, regVars, trapVars, userVars, ctorVars, concVars>>

\* The running task calls switch_to(next) for a task that was set up by
\* init or was switched away from.
SwitchTo ==
    \E next \in Tasks \ {cur}, ra \in RetAddrs :
        /\ status[next] \in Ready
        /\ LET r == SwitchToOf(ctx, hw, mem, cur, next, ra)
           IN  /\ ctx' = r.ctx
               /\ hw' = r.hw
               /\ mem' = r.mem
               /\ sw' = SwitchRecord(cur, next, r.steps)
        /\ expect' = [expect EXCEPT ![cur] = [Resume(hw) EXCEPT !.rip = ra]]
        /\ own' = [own EXCEPT ![cur] = Owned(hw)]
        /\ status' = [status EXCEPT ![cur] = "suspended",
                                      ![next] = "running"]
        /\ cur' = next
        /\ UNCHANGED <<fixVars, regVars, trapVars, userVars, ctorVars, concVars>>

---------------------------------------------------------------------------
(* Construction of user contexts (x86_64/uspace.rs:33-57,               *)
(* aarch64/uspace.rs:18-34, 304-317).                                     *)

\* UserContext::from that forces the code selector only.
UserContextFromCsOnly(frame) == [frame EXCEPT !.cs = UCODE64_SELECTOR]

\* UserContext::from(tf) (x86_64)
UserContextFrom(frame) ==
    [frame EXCEPT !.cs = UCODE64_SELECTOR, !.ss = UDATA_SELECTOR]

\* The aarch64 TrapFrame: r[0..30], usp, tpidr, elr, spsr.
A64Regs == 0..30

A64TrapFrame(r, usp, tpidr, elr, spsr) ==
    [r |-> r, usp |-> usp, tpidr |-> tpidr, elr |-> elr, spsr |-> spsr]

A64ZeroFrame == A64TrapFrame([i \in A64Regs |-> 0], 0, 0, 0, 0)

\* SPSR_EL1 fields: M in bits 3:0 (EL0t is 0), F bit 6, I bit 7, A bit 8,
\* D bit 9; Masked is 1.
SPSR_F == 6
SPSR_I == 7
SPSR_A == 8
SPSR_D == 9

Pow2(k) == 2 ^ k

\* M::EL0t + D::Masked + A::Masked + I::Unmasked + F::Masked
SpsrUser == 0 + Pow2(SPSR_D) + Pow2(SPSR_A) + 0 + Pow2(SPSR_F)

\* UspaceContext::new(entry, ustack_top, arg0) (aarch64)
UspaceContextNew(entry, ustack_top, arg0) ==
    A64TrapFrame([[i \in A64Regs |-> 0] EXCEPT ![0] = arg0],
                 ustack_top, 0, entry, SpsrUser)

\* UserContext::new(entry, ustack_top, _arg0) (aarch64): the frame; sp_el1
\* is 0.
A64UserContextNew(entry, ustack_top, arg0) ==
    A64TrapFrame([i \in A64Regs |-> 0], ustack_top, 0, entry, 0)

\* The arguments the constructors are called with; 0 is among them.
CtorEntries == {0, 300, 301}
CtorStacks == {0, 400, 408}
CtorArgs == {0, 7, 9}

\* The frames from() is given: kernel or user selectors, any flags, the
\* remaining fields zero or all nonzero.
FromFrames ==
    { [[f \in UserFrameFields |-> fill] EXCEPT
          !.rip = 300, !.cs = c, !.ss = ss, !.rflags = fl, !.vector = v]
      : fill \in {0, 7}, c \in {8, UCODE64_SELECTOR},
        ss \in {16, UDATA_SELECTOR}, fl \in {2, 514}, v \in {0, 14} }

NoCtor ==
    [op |-> "none", entry |-> 0, stack |-> 0, arg0 |-> 0,
     src |-> [f \in UserFrameFields |-> 0],
     x86 |-> [f \in UserFrameFields |-> 0],
     a64 |-> A64ZeroFrame]

\* x86_64: UserContext::new(entry, ustack_top, arg0)
X86New ==
    \E entry \in CtorEntries, stack \in CtorStacks, arg0 \in CtorArgs :
        /\ mk' = [NoCtor EXCEPT !.op = "x86_new", !.entry = entry,
                                !.stack = stack, !.arg0 = arg0,
                                !.x86 = UserContextNew(entry, stack, arg0)]
        /\ UNCHANGED <<fixVars, regVars, trapVars, userVars, swVars, concVars>>

\* x86_64: UserContext::from(tf)
X86From ==
    \E frame \in FromFrames :
        /\ mk' = [NoCtor EXCEPT !.op = "x86_from", !.src = frame,
                                !.x86 = UserContextFrom(frame)]
        /\ UNCHANGED <<fixVars, regVars, trapVars, userVars, swVars, concVars>>

\* x86_64: UserContext::from applied to the frame of a context that from
\* made.
X86FromAgain ==
    /\ mk.op = "x86_from"
    /\ mk' = [mk EXCEPT !.op = "x86_from_again", !.src = mk.x86,
                        !.x86 = UserContextFrom(mk.x86)]
    /\ UNCHANGED <<fixVars, regVars, trapVars, userVars, swVars, concVars>>

\* aarch64: UserContext::new(entry, ustack_top, arg0)
A64New ==
    \E entry \in CtorEntries, stack \in CtorStacks, arg0 \in CtorArgs :
        /\ mk' = [NoCtor EXCEPT !.op = "a64_new", !.entry = entry,
                                !.stack = stack, !.arg0 = arg0,
                                !.a64 = A64UserContextNew(entry, stack, arg0)]
        /\ UNCHANGED <<fixVars, regVars, trapVars, userVars, swVars, concVars>>

\* aarch64: UspaceContext::new(entry, ustack_top, arg0)
A64UspaceNew ==
    \E entry \in CtorEntries, stack \in CtorStacks, arg0 \in CtorArgs :
        /\ mk' = [NoCtor EXCEPT !.op = "a64_uspace_new", !.entry = entry,
                                !.stack = stack, !.arg0 = arg0,
                                !.a64 = UspaceContextNew(entry, stack, arg0)]
        /\ UNCHANGED <<fixVars, regVars, trapVars, userVars, swVars, concVars>>

---------------------------------------------------------------------------
(* The fixup table shared between cores (trap.rs:95-123): each core runs   *)
(* fixup_exception on its own frame, one read of the table at a time,      *)
(* while init_exception_table sorts the table in place.                    *)

Cores == 1..MaxCores

\* The tables and the faulting ips of the cores: every table of entries at
\* the lowest and the highest `from`, and an ip at each and between them.
ConcFroms == {1, MaxFrom}
ConcTables == SeqsUpTo([from : ConcFroms, to : ToAddrs], MaxTable)
ConcIps == {1, 2, MaxFrom}

\* A core that is not inside fixup_exception.
NoLookup ==
    [pc |-> "idle", before |-> DefaultTrapFrame, frame |-> DefaultTrapFrame,
     base |-> 0, size |-> 0, overlap |-> FALSE, ret |-> FALSE]

\* A core inside fixup_exception at `pc`, having been inside it while the
\* sort was running if c.overlap or it is running now.
At(c, pc) == [c EXCEPT !.pc = pc, !.overlap = c.overlap \/ sort_pc = "sorting"]

\* init_exception_table has been invoked.  Its callers are not part of
\* trap.rs: it is invoked once, and before any fault is serviced.
InitInvoked == sort_pc # "idle"

\* init_exception_table() is entered: sort_unstable begins.
SortBegin ==
    /\ sort_pc = "idle"
    /\ sort_pc' = "sorting"
    /\ UNCHANGED <<core, fixVars, regVars, trapVars, userVars, swVars,
                   ctorVars>>

\* One write of sort_unstable: the order in which it moves entries is not
\* specified, so any two neighbours out of order may be exchanged next.
SortSwap ==
    /\ sort_pc = "sorting"
    /\ \E i \in 1..(Len(ex_table) - 1) :
           /\ EntryLess(ex_table[i + 1], ex_table[i])
           /\ ex_table' = [ex_table EXCEPT ![i] = ex_table[i + 1],
                                           ![i + 1] = ex_table[i]]
    /\ UNCHANGED <<core, sort_pc, table_sorted, tf, fix, regVars, trapVars,
                   userVars, swVars, ctorVars>>

\* sort_unstable returns, and init_exception_table with it.
SortEnd ==
    /\ sort_pc = "sorting"
    /\ IsSorted(ex_table)
    /\ sort_pc' = "done"
    /\ table_sorted' = TRUE
    /\ UNCHANGED <<core, ex_table, tf, fix, regVars, trapVars, userVars,
                   swVars, ctorVars>>

\* A core faults at some ip and enters fixup_exception: the slice is formed
\* and binary_search_by starts with base 0 and size len, or returns Err at
\* once on an empty slice.
FixupBegin ==
    \E c \in Cores, ip \in ConcIps :
        /\ core[c].pc = "idle"
        /\ InitInvoked
        /\ LET frame == KernelFrame(ip, 14, 0)
           IN  core' = [core EXCEPT ![c] =
                   At([NoLookup EXCEPT !.before = frame, !.frame = frame,
                                       !.size = Len(ex_table)],
                      IF Len(ex_table) = 0 THEN "done" ELSE "search")]
        /\ UNCHANGED <<sort_pc, fixVars, regVars, trapVars, userVars, swVars,
                       ctorVars>>

\* One turn of the loop of binary_search_by: entries[mid] is read and
\* compared with the frame's ip.
FixupProbe ==
    \E c \in Cores :
        /\ core[c].pc = "search"
        /\ core[c].size > 1
        /\ LET half == core[c].size \div 2
               mid == core[c].base + half
               cmp == CmpFrom(ex_table[mid + 1], Ip(core[c].frame))
           IN  core' = [core EXCEPT ![c] =
                   At([core[c] EXCEPT
                          !.base = IF cmp = "Greater" THEN core[c].base
                                   ELSE mid,
                          !.size = core[c].size - half],
                      "search")]
        /\ UNCHANGED <<sort_pc, fixVars, regVars, trapVars, userVars, swVars,
                       ctorVars>>

\* The comparison after the loop: entries[base] is read; Ok(base) if its
\* `from` is the ip, else Err and fixup_exception returns false.
FixupCompare ==
    \E c \in Cores :
        /\ core[c].pc = "search"
        /\ core[c].size = 1
        /\ LET cmp == CmpFrom(ex_table[core[c].base + 1], Ip(core[c].frame))
           IN  core' = [core EXCEPT ![c] =
                   IF cmp = "Equal"
                   THEN At([core[c] EXCEPT !.size = 0], "found")
                   ELSE At([core[c] EXCEPT !.base = 0, !.size = 0], "done")]
        /\ UNCHANGED <<sort_pc, fixVars, regVars, trapVars, userVars, swVars,
                       ctorVars>>

\* A fixup_exception that moves the entry it found to the head of the table.
FixupSetIpMoveToFront ==
    \E c \in Cores :
        /\ core[c].pc = "found"
        /\ LET idx == core[c].base + 1
           IN  /\ core' = [core EXCEPT ![c] =
                     At([core[c] EXCEPT
                            !.frame = SetIp(core[c].frame, ex_table[idx].to),
                            !.ret = TRUE, !.base = 0],
                        "done")]
               /\ ex_table' = [ex_table EXCEPT ![1] = ex_table[idx],
                                               ![idx] = ex_table[1]]
        /\ UNCHANGED <<sort_pc, table_sorted, tf, fix, regVars, trapVars,
                       userVars, swVars, ctorVars>>

\* Ok(entry): entries[entry].to is read and stored in the frame's ip, and
\* fixup_exception returns true.
FixupSetIp ==
    \E c \in Cores :
        /\ core[c].pc = "found"
        /\ core' = [core EXCEPT ![c] =
               At([core[c] EXCEPT
                      !.frame = SetIp(core[c].frame,
                                      ex_table[core[c].base + 1].to),
                      !.ret = TRUE, !.base = 0],
                  "done")]
        /\ UNCHANGED <<sort_pc, fixVars, regVars, trapVars, userVars, swVars,
                       ctorVars>>

\* The core leaves the trap with what fixup_exception returned.
FixupReturn ==
    \E c \in Cores :
        /\ core[c].pc = "done"
        /\ core' = [core EXCEPT ![c] = NoLookup]
        /\ UNCHANGED <<sort_pc, fixVars, regVars, trapVars, userVars, swVars,
                       ctorVars>>

---------------------------------------------------------------------------
(* Specifications. *)

FixIdle ==
    /\ tf = DefaultTrapFrame
    /\ fix = NoFixup

RegIdle ==
    /\ ht = NoHt
    /\ calls = <<>>

NoSlices ==
    /\ IRQ = <<>>
    /\ PAGE_FAULT = <<>>
    /\ BREAK_HANDLER = <<>>
    /\ DEBUG_HANDLER = <<>>

TrapIdle == ktrap = NoTrap

CtorIdle == mk = NoCtor

ConcIdle ==
    /\ core = [c \in Cores |-> NoLookup]
    /\ sort_pc = "idle"

SwitchIdle ==
    /\ ctx = [t \in Tasks |-> TaskContextNew]
    /\ mem = [a \in StackAddrs |-> 0]
    /\ hw = BootCpu
    /\ cur = BootTask
    /\ status = [t \in Tasks |-> IF t = BootTask THEN "running" ELSE "new"]
    /\ expect = [t \in Tasks |-> NoResume]
    /\ own = [t \in Tasks |-> Owned(BootCpu)]
    /\ sw = [last |-> "none", from |-> 0, to |-> 0, was |-> "none",
             steps |-> <<>>,
             cr3_before |-> KernelPageTable, round |-> FALSE]


UserIdle ==
    /\ arch = "none"
    /\ uctx = UserContextNew(0, 0, 0)
    /\ cpu = X86Cpu
    /\ run = RunIdle
    /\ a64 = [esr |-> [ec |-> 0, iss |-> 0], far |-> 0, cause |-> NoCause,
              mask |-> 0, state |-> "idle", ret |-> Reason("none")]

\* The fixup table from link time on: any table in any order, not yet
\* sorted; lookups may come at any time.
InitFixup ==
    /\ ex_table \in ExTables
    /\ table_sorted = FALSE
    /\ FixIdle
    /\ NoSlices /\ RegIdle
    /\ TrapIdle
    /\ UserIdle
    /\ SwitchIdle
    /\ CtorIdle
    /\ ConcIdle

NextFixup == InitExceptionTable \/ DoFixupException

SpecFixup == InitFixup /\ [][NextFixup]_vars

\* The kernel after boot: the table sorted by init_exception_table, the
\* slices assembled, traps arriving in kernel mode.
InitTrap ==
    /\ \E t \in SeqsUpTo(ExceptionTableEntry, MaxTrapTable) :
           ex_table = SortUnstable(t)
    /\ table_sorted = TRUE
    /\ FixIdle
    /\ RegistryInit /\ RegIdle
    /\ TrapIdle
    /\ UserIdle
    /\ SwitchIdle
    /\ CtorIdle
    /\ ConcIdle

NextTrap == KernelTrap \/ TrapReturn

SpecTrap == InitTrap /\ [][NextTrap]_vars

\* A kernel built for either architecture, a user context made by new()
\* (on x86_64 also a frame with kernel selectors), the IRQ slice assembled;
\* the kernel calls run() again and again.
InitUser ==
    /\ arch \in {"x86_64", "aarch64"}
    /\ uctx \in {UserContextNew(300, 400, 7)}
                 \cup (IF arch = "x86_64" THEN {KernelSelectorsFrame}
                       ELSE {})
    /\ cpu = X86Cpu
    /\ run = RunIdle
    /\ \E ec \in {EC_Unknown, EC_SVC64} :
           a64 = [esr |-> [ec |-> ec, iss |-> 0], far |-> 0,
                  cause |-> NoCause, mask |-> 0, state |-> "idle",
                  ret |-> Reason("none")]
    /\ IRQ \in SeqsUpTo(HandlerKinds, MaxHandlers)
    /\ PAGE_FAULT = <<>> /\ BREAK_HANDLER = <<>> /\ DEBUG_HANDLER = <<>>
    /\ RegIdle
    /\ ex_table = <<>> /\ table_sorted = TRUE /\ FixIdle
    /\ TrapIdle
    /\ SwitchIdle
    /\ CtorIdle
    /\ ConcIdle

NextUser ==
    \/ RunDisableIrqs
    \/ RunSwitchToUserFsBase
    \/ EnterUser
    \/ UserTrap
    \/ RunSwitchToKernelFsBase
    \/ RunClassify
    \/ RunEnableIrqs
    \/ A64Run

SpecUser == InitUser /\ [][NextUser]_vars

\* The kernel after boot on x86_64: the boot task running on its stack with
\* the kernel page table, every context fresh from new(); tasks are set
\* up, given address spaces, and switched between.
InitSwitch ==
    /\ SwitchIdle
    /\ ex_table = <<>> /\ table_sorted = TRUE /\ FixIdle
    /\ NoSlices /\ RegIdle
    /\ TrapIdle
    /\ UserIdle
    /\ CtorIdle
    /\ ConcIdle

NextSwitch ==
    \/ TaskInit
    \/ SetPageTableRoot
    \/ Compute
    \/ SwitchTo

SpecSwitch == InitSwitch /\ [][NextSwitch]_vars

\* User contexts are constructed, for either architecture, with any
\* arguments and from any frame.
InitNew ==
    /\ CtorIdle
    /\ ConcIdle
    /\ SwitchIdle
    /\ ex_table = <<>> /\ table_sorted = TRUE /\ FixIdle
    /\ NoSlices /\ RegIdle
    /\ TrapIdle
    /\ UserIdle

NextNew ==
    \/ X86New
    \/ X86From
    \/ X86FromAgain
    \/ A64New
    \/ A64UspaceNew

SpecNew == InitNew /\ [][NextNew]_vars

\* Several cores and one table: init_exception_table is invoked once and
\* sorts the table write by write; the cores take faults from then on.
InitConc ==
    /\ ex_table \in ConcTables
    /\ table_sorted = FALSE
    /\ FixIdle
    /\ NoSlices /\ RegIdle
    /\ TrapIdle
    /\ UserIdle
    /\ SwitchIdle
    /\ CtorIdle
    /\ ConcIdle

NextConc ==
    \/ SortBegin
    \/ SortSwap
    \/ SortEnd
    \/ FixupBegin
    \/ FixupProbe
    \/ FixupCompare
    \/ FixupSetIp
    \/ FixupReturn

SpecConc == InitConc /\ [][NextConc]_vars

---------------------------------------------------------------------------
(* Claims. *)

\* An error code with none of the reserved recognised bits set.
PfCodeValid(err_code) ==
    \A k \in {PF_MALFORMED_TABLE, PF_PROTECTION_KEY, PF_SHADOW_STACK, PF_SGX} :
        ~Bit(err_code, k)

\* The access flags a page-fault error code stands for: WRITE or READ by
\* the write bit, USER by the user bit, EXECUTE by the fetch bit.
PfFlags(err_code) ==
    (IF Bit(err_code, 1) THEN {"WRITE"} ELSE {"READ"})
    \cup (IF Bit(err_code, 2) THEN {"USER"} ELSE {})
    \cup (IF Bit(err_code, 4) THEN {"EXECUTE"} ELSE {})

\* run() on x86_64 is past its match: it holds a reason, or it has panicked.
X86Classified == arch = "x86_64" /\ run.pc \in {"classified", "panic"}

\* The classification C1 describes, for the vector in the frame.
X86ClassifiedAsClaimed ==
    LET v == uctx.vector
    IN  /\ run.pc = "classified"
        /\ v = 14 => /\ run.ret = ReasonPageFault(cpu.cr2, PfFlags(uctx.error_code))
                     /\ calls = <<>>
        /\ v = 128 => run.ret = Reason("Syscall") /\ calls = <<>>
        /\ (v \in 32..255 /\ v # 128) =>
              /\ run.ret = Reason("Interrupt")
              /\ calls = IF Len(IRQ) > 0
                         THEN <<[cat |-> "IRQ", idx |-> 1, args |-> <<v>>]>>
                         ELSE <<>>
        /\ (v \notin 32..255 /\ v # 14) =>
              /\ run.ret.kind = "Exception"
              /\ run.ret.info.trap_vector = v
              /\ run.ret.info.rip = uctx.rip
              /\ run.ret.info.error_code = uctx.error_code
              /\ calls = <<>>

\* C1: x86_64 run classifies by the frame's vector v: 14 gives PageFault
\* with CR2 and the flags of the error code; 0x80 gives Syscall with no IRQ
\* handler invoked; any other v in 0x20..=0xff invokes the IRQ slice with v
\* and gives Interrupt; every other v gives Exception with v, rip and the
\* error code.
C1_Original == X86Classified => X86ClassifiedAsClaimed

\* C1 apart from page faults whose error code does not decode: the
\* classification is as described.
C1_ClassifyDecodable ==
    (X86Classified /\ (uctx.vector = 14 => PfCodeValid(uctx.error_code)))
        => X86ClassifiedAsClaimed

\* C7: whatever vector or exception class and whatever error or cause code
\* user mode comes back with, run returns a reason and does not panic.
C7_RunNeverPanics == run.pc # "panic" /\ a64.state # "panic"

\* A translation fault status code (level 0 to 3).
IsTranslationFault(iss) == (iss % 64) \in 4..7

\* C8: aarch64 run gives Syscall for SVC64; for a lower-EL data abort with
\* a translation fault, PageFault(FAR, {WRITE, USER}) when WnR is set and CM
\* clear and PageFault(FAR, {READ, USER}) otherwise; for a lower-EL
\* instruction abort with a translation fault, PageFault(FAR, {EXECUTE, USER}).
C8_A64Classification ==
    (arch = "aarch64" /\ a64.cause.kind = "sync") =>
        LET c == a64.cause
            wnr == (c.iss \div 64) % 2 = 1
            cm == (c.iss \div 256) % 2 = 1
        IN  /\ c.ec = EC_SVC64 =>
                a64.state = "returned" /\ a64.ret = Reason("Syscall")
            /\ (c.ec = EC_DataAbortLowerEL /\ IsTranslationFault(c.iss)) =>
                /\ a64.state = "returned"
                /\ a64.ret = ReasonPageFault(c.far,
                       IF wnr /\ ~cm THEN {"WRITE", "USER"}
                       ELSE {"READ", "USER"})
            /\ (c.ec = EC_InstrAbortLowerEL /\ IsTranslationFault(c.iss)) =>
                /\ a64.state = "returned"
                /\ a64.ret = ReasonPageFault(c.far, {"EXECUTE", "USER"})

\* C8 witness: a data abort on a cache-maintenance write (WnR and CM set)
\* with a level-3 translation fault came back as a READ page fault.
C8_Witness ==
    /\ arch = "aarch64" /\ a64.state = "returned"
    /\ a64.cause.kind = "sync" /\ a64.cause.ec = EC_DataAbortLowerEL
    /\ a64.cause.iss = 7 + 64 + 256
    /\ a64.ret.kind = "PageFault" /\ a64.ret.flags = {"READ", "USER"}
    /\ a64.ret.vaddr = a64.cause.far

\* C9: when user mode is left by a breakpoint, an illegal execution state
\* or an alignment exception, aarch64 run returns Exception, and for the
\* breakpoint the info's kind() is Breakpoint.
C9_Original ==
    (arch = "aarch64" /\ a64.cause.kind = "sync"
     /\ a64.cause.ec \in {EC_Brk64, EC_IllegalExecutionState,
                          EC_PCAlignmentFault, EC_SPAlignmentFault}) =>
        /\ a64.ret.kind = "Exception"
        /\ a64.cause.ec = EC_Brk64 => A64ExceptionKind(a64.ret.info) = "Breakpoint"

\* C10: when user mode is left by an interrupt, aarch64 run hands it to the
\* IRQ slice and returns Interrupt, whatever the earlier trips were.
C10_Original ==
    (arch = "aarch64" /\ a64.cause.kind = "irq") =>
        /\ a64.state = "returned"
        /\ a64.ret = Reason("Interrupt")
        /\ Len(IRQ) > 0 => calls = <<[cat |-> "IRQ", idx |-> 1, args |-> <<0>>]>>

\* The table entries whose `from` is the address ip.
EntriesAt(ip) == {i \in DOMAIN ex_table : ex_table[i].from = ip}

\* C2: on a table sorted by init, fixup_exception returns true exactly when
\* the frame's ip is the `from` of some entry, and then only rip changes, to
\* that entry's `to`; for any other ip it returns false and the frame is
\* unchanged.
C2_FixupExactMatch ==
    (fix.called /\ fix.sorted) =>
        IF EntriesAt(fix.before.rip) # {}
        THEN /\ fix.ret = TRUE
             /\ \E i \in EntriesAt(fix.before.rip) :
                    tf = [fix.before EXCEPT !.rip = ex_table[i].to]
        ELSE /\ fix.ret = FALSE
             /\ tf = fix.before

\* C2 witness: a sorted table of three entries with distinct `from`, and a
\* lookup that hit one of them and moved rip to its `to`.
C2_Witness ==
    /\ fix.called /\ fix.sorted /\ fix.ret
    /\ Len(ex_table) = 3
    /\ ex_table[1].from < ex_table[2].from
    /\ ex_table[2].from < ex_table[3].from
    /\ fix.before.rip = ex_table[3].from
    /\ tf.rip = ex_table[3].to

\* C3: handle_trap! on an empty slice invokes nothing and yields false; on a
\* slice of one or more entries it invokes the first entry exactly once with
\* the given arguments, yields that entry's answer, and invokes no later
\* entry.
C3_HandleTrapFirstOnly ==
    ht.used =>
        IF Len(SliceOf(ht.cat)) = 0
        THEN calls = <<>> /\ ht.ret = FALSE
        ELSE /\ calls = <<[cat |-> ht.cat, idx |-> 1, args |-> ht.args]>>
             /\ ht.ret = Verdict(SliceOf(ht.cat)[1], ht.args)

\* C3 witness: a dispatch on a slice of two entries that answer differently,
\* where only the first was invoked.
C3_Witness ==
    /\ ht.used /\ ht.cat = "PAGE_FAULT"
    /\ Len(PAGE_FAULT) = 2 /\ PAGE_FAULT[1] = "no" /\ PAGE_FAULT[2] = "yes"
    /\ Len(calls) = 1 /\ calls[1].idx = 1
    /\ ht.ret = FALSE

\* The answer the PAGE_FAULT slot gives: its first handler's, or false when
\* none is registered.
PfHandled(args) == Len(PAGE_FAULT) > 0 /\ Verdict(PAGE_FAULT[1], args)

\* What C4 asks of a kernel page fault once the handler slot is consulted.
PfPolicy ==
    /\ Len(PAGE_FAULT) > 0 =>
           /\ Len(calls) = 1
           /\ calls[1].cat = "PAGE_FAULT" /\ calls[1].args[1] = ktrap.cr2
    /\ IF PfHandled(ht.args)
       THEN ktrap.outcome = "resumed" /\ tf = ktrap.before /\ ~ktrap.searched
       ELSE IF EntriesAt(ktrap.before.rip) # {}
            THEN /\ ktrap.outcome = "resumed"
                 /\ \E i \in EntriesAt(ktrap.before.rip) :
                        tf = [ktrap.before EXCEPT !.rip = ex_table[i].to]
            ELSE ktrap.outcome = "panic"

\* C4 as stated: every kernel page fault is offered to the PAGE_FAULT slot
\* first, resumes untouched when the handler answers true, otherwise resumes
\* at a matching fixup entry's `to`, otherwise panics.
C4_Original ==
    (ktrap.called /\ ktrap.before.vector = PAGE_FAULT_VECTOR) => PfPolicy

\* C4 amended: the policy holds for every kernel page fault whose error code
\* has no reserved bit set; with a reserved bit set the dispatcher panics
\* before any handler is invoked or the fixup table is searched.
C4_PageFaultPolicy ==
    (ktrap.called /\ ktrap.before.vector = PAGE_FAULT_VECTOR) =>
        IF PfCodeValid(ktrap.before.error_code)
        THEN PfPolicy
        ELSE /\ ktrap.outcome = "panic"
             /\ calls = <<>> /\ ~ktrap.searched /\ tf = ktrap.before

\* C4 witness: the handler answered false, the faulting ip matched a table
\* entry, and the fault resumes at that entry's `to`.
C4_Witness ==
    /\ ktrap.called /\ ktrap.before.vector = PAGE_FAULT_VECTOR
    /\ Len(PAGE_FAULT) = 1 /\ Len(calls) = 1 /\ ~ht.ret
    /\ ktrap.searched /\ ktrap.outcome = "resumed"
    /\ Len(ex_table) = 1 /\ tf.rip = ex_table[1].to
    /\ ktrap.before.rip = ex_table[1].from


\* C5: after a switch_to has transferred control, the incoming task has
\* the instruction pointer, stack pointer and callee-saved registers it is
\* to resume with: a task set up by init and never run starts at its entry
\* with every callee-saved register zero and the stack pointer 8 below
\* its stack top; any other task, the task of a round trip A -> B -> A
\* included, has the return address of its own switch_to call and the
\* stack pointer and callee-saved registers it had when it made that call.
C5_SwitchRoundTrip ==
    sw.last = "switch" =>
        /\ Resume(hw) = expect[cur]
        /\ sw.was = "inited" =>
               /\ hw.rip \in Entries
               /\ \A r \in CalleeSaved : hw[r] = 0
               /\ hw.rsp = KStackTop(cur) - 8
        /\ sw.was = "suspended" => hw.rip \in RetAddrs

\* A round trip: the running task was switched away from by the previous
\* operation (round) and switched back to by the last one, with registers it had
\* computed before the first switch.
C5_Witness ==
    /\ sw.last = "switch"
    /\ sw.round
    /\ hw.rip \in RetAddrs
    /\ hw.rbx # 0
    /\ hw.rsp = expect[cur].rsp

\* C6: set_page_table_root never writes CR3, and right after switch_to has
\* transferred control CR3 is the root stored in the context of the task
\* switched to.
C6_Original ==
    /\ sw.last = "set_root" => hw.cr3 = sw.cr3_before
    /\ sw.last = "switch" => hw.cr3 = ctx[cur].cr3

\* The part of C6 about set_page_table_root alone.
C6_SetRootLeavesCr3 ==
    sw.last = "set_root" => hw.cr3 = sw.cr3_before


\* The general-purpose registers of the x86_64 frame that new() gives no
\* argument to.
X86OtherGprs ==
    {"rax", "rcx", "rdx", "rbx", "rbp", "rsi", "r8", "r9", "r10", "r11",
     "r12", "r13", "r14", "r15"}

\* C11: the frame of x86_64 UserContext::new(entry, stack, arg0) has
\* ip() = entry, sp() = stack, arg0() = arg0, every other general-purpose
\* register, the vector and the error code zero, the user selectors in cs
\* and ss, and only the interrupt flag in rflags.
C11_X86NewFrame ==
    mk.op = "x86_new" =>
        /\ Ip(mk.x86) = mk.entry
        /\ Sp(mk.x86) = mk.stack
        /\ Arg0(mk.x86) = mk.arg0
        /\ \A r \in X86OtherGprs : mk.x86[r] = 0
        /\ mk.x86.vector = 0
        /\ mk.x86.error_code = 0
        /\ mk.x86.cs = UCODE64_SELECTOR
        /\ mk.x86.ss = UDATA_SELECTOR
        /\ mk.x86.rflags = INTERRUPT_FLAG

\* new() was called with an entry, a stack and an argument that are all
\* nonzero and different.
C11_Witness ==
    /\ mk.op = "x86_new"
    /\ mk.entry = 301 /\ mk.stack = 408 /\ mk.arg0 = 9
    /\ mk.x86.rdi = 9

\* C12: the frame of aarch64 UserContext::new(entry, stack, arg0) has elr =
\* entry, usp = stack, x0 = arg0, every other general-purpose register
\* zero, and a status word for EL0 with IRQs unmasked and debug, SError and
\* FIQ masked.
C12_Original ==
    mk.op = "a64_new" =>
        /\ mk.a64.elr = mk.entry
        /\ mk.a64.usp = mk.stack
        /\ mk.a64.r[0] = mk.arg0
        /\ \A i \in A64Regs \ {0} : mk.a64.r[i] = 0
        /\ mk.a64.spsr % 16 = 0
        /\ ~Bit(mk.a64.spsr, SPSR_I)
        /\ Bit(mk.a64.spsr, SPSR_D)
        /\ Bit(mk.a64.spsr, SPSR_A)
        /\ Bit(mk.a64.spsr, SPSR_F)

\* What of C12 aarch64 UserContext::new does: entry, stack, zero in the
\* registers other than x0, EL0 with IRQs unmasked.
C12_NewEntryAndStack ==
    mk.op = "a64_new" =>
        /\ mk.a64.elr = mk.entry
        /\ mk.a64.usp = mk.stack
        /\ \A i \in A64Regs \ {0} : mk.a64.r[i] = 0
        /\ mk.a64.spsr % 16 = 0
        /\ ~Bit(mk.a64.spsr, SPSR_I)

\* C13: x86_64 UserContext::from(frame) has the user selectors in cs and
\* ss whatever the frame held, and every other field as the frame had it;
\* from applied to the result gives the result.
C13_FromForcesSelectors ==
    mk.op \in {"x86_from", "x86_from_again"} =>
        /\ mk.x86.cs = UCODE64_SELECTOR
        /\ mk.x86.ss = UDATA_SELECTOR
        /\ \A f \in UserFrameFields \ {"cs", "ss"} : mk.x86[f] = mk.src[f]
        /\ mk.op = "x86_from_again" => mk.x86 = mk.src

\* from was applied twice, starting from a frame with kernel selectors and
\* nonzero registers.
C13_Witness ==
    /\ mk.op = "x86_from_again"
    /\ mk.x86.rax = 7
    /\ mk.x86.rflags = 514
    /\ mk.x86.vector = 14


\* The table is in ascending order of `from`.
SortedByFrom(t) ==
    \A i \in 1..(Len(t) - 1) : t[i].from <= t[i + 1].from

\* Two tables hold the same entries, each as many times.
SameEntries(t, u) ==
    /\ Len(t) = Len(u)
    /\ \A e \in ExceptionTableEntry :
           Cardinality({i \in DOMAIN t : t[i] = e})
               = Cardinality({i \in DOMAIN u : u[i] = e})

\* C14: init_exception_table leaves the table sorted ascending by `from`
\* with the same multiset of entries; after it, for every entry e of the
\* table a frame with ip = e.from is fixed up successfully, to e.to when
\* no other entry has that `from`.
C14_InitSortsTable ==
    /\ [][(~table_sorted /\ table_sorted') =>
              /\ SortedByFrom(ex_table')
              /\ SameEntries(ex_table, ex_table')]_vars
    /\ [](table_sorted =>
            \A i \in DOMAIN ex_table :
                LET r == FixupException(ex_table,
                             KernelFrame(ex_table[i].from, 14, 0))
                IN  /\ r.ret
                    /\ Cardinality(EntriesAt(ex_table[i].from)) = 1 =>
                           Ip(r.frame) = ex_table[i].to)

\* init_exception_table has run on a full table in which two entries
\* share a `from`, and a frame at the `from` of the last entry was fixed
\* up.
C14_Witness ==
    /\ table_sorted
    /\ Len(ex_table) = MaxTable
    /\ \E i, j \in DOMAIN ex_table :
           i # j /\ ex_table[i].from = ex_table[j].from
                 /\ ex_table[i].to # ex_table[j].to
    /\ fix.called /\ fix.sorted /\ fix.ret
    /\ fix.before.rip = ex_table[Len(ex_table)].from


\* C15: on x86_64 a user-mode breakpoint (vector 3) makes run return
\* Exception(info) with info.kind() = Breakpoint, an invalid opcode (vector
\* 6) gives IllegalInstruction, and every other vector an ExceptionInfo
\* carries gives Other.
C15_X86ExceptionKind ==
    (arch = "x86_64" /\ run.pc = "classified") =>
        /\ uctx.vector = 3 =>
               /\ run.ret.kind = "Exception"
               /\ X86ExceptionKind(run.ret.info) = "Breakpoint"
        /\ uctx.vector = 6 =>
               /\ run.ret.kind = "Exception"
               /\ X86ExceptionKind(run.ret.info) = "IllegalInstruction"
        /\ (run.ret.kind = "Exception"
                /\ run.ret.info.trap_vector \notin {3, 6}) =>
               X86ExceptionKind(run.ret.info) = "Other"

\* run has classified a breakpoint taken in user mode.
C15_Witness ==
    /\ arch = "x86_64" /\ run.pc = "classified"
    /\ uctx.vector = 3
    /\ run.ret.kind = "Exception"
    /\ run.ret.info.trap_vector = 3
    /\ X86ExceptionKind(run.ret.info) = "Breakpoint"

\* x86_64 run() has returned a reason to its caller.
X86Returned == arch = "x86_64" /\ run.pc = "idle" /\ run.ret.kind # "none"

\* C16: when x86_64 run returns, interrupts are enabled for every reason
\* but Interrupt, and are not enabled when the reason is Interrupt.
C16_Original ==
    X86Returned =>
        /\ run.ret.kind # "Interrupt" => cpu.irqs
        /\ run.ret.kind = "Interrupt" => ~cpu.irqs

\* What run does: interrupts are enabled whenever it returns.
C16_EnabledOnEveryReturn == X86Returned => cpu.irqs

\* C17: the hardware accesses of one switch_to are, in this order: FPU
\* save, FPU restore, thread pointer read, thread pointer write, the
\* address-space root write exactly when next's root differs from the
\* root stored in self, and last of all context_switch.
C17_SwitchToStepOrder ==
    sw.last = "switch" =>
        sw.steps =
            <<"fxsave", "fxrstor", "read_thread_pointer",
              "write_thread_pointer">>
            \o (IF ctx[sw.to].cr3 # ctx[sw.from].cr3
                THEN <<"write_user_page_table">> ELSE <<>>)
            \o <<"context_switch">>

\* A switch_to straight back between two tasks that have the same user
\* root stored: no root is written.
C17_Witness ==
    /\ sw.last = "switch"
    /\ ctx[sw.to].cr3 = ctx[sw.from].cr3
    /\ ctx[sw.to].cr3 # KernelPageTable
    /\ Len(sw.steps) = 5
    /\ sw.round

\* C18: in x86_64 run, from disable_irqs until enable_irqs, kernel code
\* runs with interrupts disabled: the thread pointer swaps, the
\* classification and the IRQ handler called inline.
C18_IrqsOffInRun ==
    (arch = "x86_64"
        /\ run.pc \in {"irqs_off", "fs_user", "trapped", "fs_kernel",
                       "classified"})
        => ~cpu.irqs

\* run has called the IRQ handler inline, after user mode ran with
\* interrupts enabled, and has not yet enabled interrupts.
C18_Witness ==
    /\ arch = "x86_64" /\ run.pc = "classified"
    /\ run.ret.kind = "Interrupt"
    /\ calls # <<>>
    /\ ~cpu.irqs

\* The vectors C20 is about.
FatalVector(v) == v = 13 \/ (v < 32 /\ v \notin {1, 3, 14})

\* C20: a kernel-mode trap with vector 13, or with a vector below 0x20
\* other than 1, 3 and 14, makes x86_trap_handler panic: no handler is
\* invoked, the fixup table is not searched, the frame is untouched, and
\* nothing runs afterwards.
C20_FatalVectorsPanic ==
    /\ []((ktrap.called /\ FatalVector(ktrap.before.vector)) =>
            /\ ktrap.outcome = "panic"
            /\ calls = <<>>
            /\ ht = NoHt
            /\ ~ktrap.searched
            /\ tf = ktrap.before)
    /\ [][ktrap.outcome # "panic"]_vars

\* A general protection fault in kernel mode at an instruction that has a
\* fixup entry, with a page-fault handler registered.
C20_Witness ==
    /\ ktrap.called
    /\ ktrap.before.vector = 13
    /\ ktrap.outcome = "panic"
    /\ PAGE_FAULT # <<>>
    /\ EntriesAt(ktrap.before.rip) # {}


\* C19: with a user-mode frame, while user code runs the thread pointer is
\* the frame's fs_base as of entry; once switch_to_kernel_fs_base has run,
\* and after run returns, the thread pointer is the kernel's from before
\* run and the frame's fs_base is the value user mode left; run after run.
\* With a frame that is not a user-mode frame neither swap is made.
C19_FsBaseSwap ==
    arch = "x86_64" =>
        IF IsUser(uctx)
        THEN /\ run.pc \in {"fs_user", "user"} =>
                    /\ cpu.thread_pointer = run.fs0
                    /\ cpu.KERNEL_FS_BASE = run.tp0
             /\ (run.pc \in {"fs_kernel", "classified", "panic"}
                    \/ X86Returned) =>
                    /\ cpu.thread_pointer = run.tp0
                    /\ uctx.fs_base = run.ufs
        ELSE /\ run.pc \in {"fs_user", "user"} =>
                    /\ cpu.thread_pointer = run.tp0
                    /\ cpu.KERNEL_FS_BASE = X86Cpu.KERNEL_FS_BASE
             /\ (run.pc \in {"fs_kernel", "classified", "panic"}
                    \/ X86Returned) =>
                    /\ cpu.thread_pointer = run.ufs
                    /\ uctx.fs_base = run.fs0
                    /\ cpu.KERNEL_FS_BASE = X86Cpu.KERNEL_FS_BASE

\* A second run has returned: it entered user mode with the thread
\* pointer the first run saved, and user mode left another one.
C19_Witness ==
    /\ X86Returned
    /\ IsUser(uctx)
    /\ run.fs0 \in UserFsBases
    /\ run.ufs \in UserFsBases
    /\ run.ufs # run.fs0
    /\ uctx.fs_base = run.ufs
    /\ cpu.thread_pointer = KernelFsBase


\* The callbacks one expansion of handle_trap! on `slice` makes.
FirstOnly(cat, slice, args) ==
    IF Len(slice) > 0
    THEN <<[cat |-> cat, idx |-> 1, args |-> args]>>
    ELSE <<>>

\* C21: a kernel-mode trap with a vector in 0x20..=0xff, 0x80 included, is
\* forwarded with its vector number to the IRQ slice and then resumes,
\* with a handler or without and whatever the handler answers; the frame
\* is left as it was and the fixup table is not searched.
C21_IrqRangeResumes ==
    (ktrap.called /\ ktrap.before.vector \in 32..255) =>
        /\ ktrap.outcome = "resumed"
        /\ calls = FirstOnly("IRQ", IRQ, <<ktrap.before.vector>>)
        /\ tf = ktrap.before
        /\ ~ktrap.searched

\* The legacy syscall vector was taken in kernel mode, the IRQ handler
\* answered false, and the dispatcher resumed.
C21_Witness ==
    /\ ktrap.called
    /\ ktrap.before.vector = 128
    /\ IRQ # <<>> /\ IRQ[1] = "no"
    /\ calls # <<>>
    /\ ktrap.outcome = "resumed"

\* C22: a kernel-mode breakpoint (vector 3) or debug trap (vector 1) is
\* offered to the first handler of its slice and resumes in every case:
\* no handler, handler answering false, handler answering true.
C22_BreakpointDebugResume ==
    /\ (ktrap.called /\ ktrap.before.vector = 3) =>
           /\ ktrap.outcome = "resumed"
           /\ calls = FirstOnly("BREAK_HANDLER", BREAK_HANDLER, <<"tf", 0>>)
    /\ (ktrap.called /\ ktrap.before.vector = 1) =>
           /\ ktrap.outcome = "resumed"
           /\ calls = FirstOnly("DEBUG_HANDLER", DEBUG_HANDLER, <<"tf">>)

\* A breakpoint whose handler answered false, resumed.
C22_Witness ==
    /\ ktrap.called
    /\ ktrap.before.vector = 3
    /\ BREAK_HANDLER # <<>> /\ BREAK_HANDLER[1] = "no"
    /\ calls # <<>>
    /\ ktrap.outcome = "resumed"


\* The fault status code is a translation fault (0b0001LL) or a permission
\* fault (0b0011LL), at level LL.
IsTranslationOrPermissionFault(iss) ==
    (iss % 64) \in (4..7) \cup (12..15)

\* C23: on aarch64 a lower-EL data or instruction abort gives PageFault
\* exactly when its fault status code is a translation or a permission
\* fault; with any other status code the handler panics and run returns
\* nothing.
C23_A64AbortFatalPath ==
    (arch = "aarch64" /\ a64.cause.kind = "sync"
        /\ a64.cause.ec \in A64Aborts) =>
        IF IsTranslationOrPermissionFault(a64.cause.iss)
        THEN a64.state = "returned" /\ a64.ret.kind = "PageFault"
        ELSE a64.state = "panic" /\ a64.ret = Reason("none")

\* A data abort with an alignment fault took the fatal path.
C23_Witness ==
    /\ arch = "aarch64"
    /\ a64.cause.kind = "sync" /\ a64.cause.ec = EC_DataAbortLowerEL
    /\ a64.cause.iss % 64 = 33
    /\ a64.state = "panic"


\* C24: after init(entry, kstack_top, tls_area) the seven words from
\* kstack_top - 64 to kstack_top - 16 are six zeros and then `entry`, the
\* saved stack pointer is kstack_top - 64, and kstack_top and tls_area are
\* recorded; when the first switch-in has popped the frame and returned,
\* rip is `entry`, the stack pointer is kstack_top - 8 and (stack pointer
\* + 8) is 16-byte aligned.
C24_InitFrame ==
    /\ \A t \in Tasks :
           status[t] = "inited" =>
               LET top == KStackTop(t)
               IN  /\ top % 16 = 0
                   /\ ctx[t].rsp = top - 64
                   /\ ctx[t].kstack_top = top
                   /\ ctx[t].fs_base = TlsArea(t)
                   /\ mem[top - 16] = expect[t].rip
                   /\ mem[top - 16] \in Entries
                   /\ \A k \in 3..8 : mem[top - 8 * k] = 0
    /\ (sw.last = "switch" /\ sw.was = "inited") =>
           /\ hw.rip \in Entries
           /\ hw.rsp = KStackTop(cur) - 8
           /\ (hw.rsp + 8) % 16 = 0

\* A task set up by init with the second entry point has been switched to
\* for the first time.
C24_Witness ==
    /\ sw.last = "switch" /\ sw.was = "inited"
    /\ hw.rip = 601
    /\ hw.rsp = KStackTop(cur) - 8
    /\ hw.rbx = 0


\* The set bits of the error code lie within protection-violation,
\* caused-by-write, user-mode and instruction-fetch.
PfCodeDecodable(err_code) ==
    /\ err_code < 2 ^ (PF_INSTRUCTION_FETCH + 1)
    /\ ~Bit(err_code, PF_MALFORMED_TABLE)

\* C25: err_code_to_flags gives Ok(flags) for an error code with bits only
\* among the four decodable ones, flags being WRITE or READ by the write
\* bit, USER by the user bit and EXECUTE by the fetch bit; for an error
\* code with another recognised bit set it gives Err(the error code), and
\* then the kernel page-fault handler and run both panic with no handler
\* called and no fixup tried.  The first conjunct applies the three
\* functions to every error code under each set of handlers and each table,
\* which do not change while a trap is handled; the second is the trap
\* the dispatcher has just handled.
C25_ErrCodeToFlags ==
    /\ ~ktrap.called =>
         \A code \in ErrCodes :
           LET d == ErrCodeToFlags(code)
               k == HandlePageFault(KernelFrame(0, 14, code), 200)
               u == Classify([uctx EXCEPT !.vector = 14,
                                          !.error_code = code], cpu)
           IN  /\ PfCodeDecodable(code) =>
                      /\ d.ok
                      /\ d.flags = PfFlags(code)
                      /\ ~u.panic
               /\ ~PfCodeValid(code) =>
                      /\ ~d.ok
                      /\ d.err = code
                      /\ k.outcome = "panic" /\ k.calls = <<>>
                      /\ ~k.searched
                      /\ u.panic /\ u.calls = <<>>
    /\ (ktrap.called /\ ktrap.before.vector = 14
            /\ ~PfCodeValid(ktrap.before.error_code)) =>
           /\ ktrap.outcome = "panic"
           /\ calls = <<>>
           /\ ~ktrap.searched

\* A kernel page fault with the write bit and a reserved bit in its error
\* code panicked although a handler that accepts page faults is registered
\* and the instruction has a fixup entry.
C25_Witness ==
    /\ ktrap.called
    /\ ktrap.before.vector = 14
    /\ ktrap.before.error_code = 10
    /\ ktrap.outcome = "panic"
    /\ PAGE_FAULT # <<>> /\ PAGE_FAULT[1] = "yes"
    /\ EntriesAt(ktrap.before.rip) # {}


\* C26: right after a switch the thread pointer and the extended state on
\* the cpu are the ones the incoming task had when it was last switched
\* away from, or its init-supplied TLS base and the default extended state
\* on its first run; while a task runs the thread pointer is its own and
\* the extended state is the restored one or what it computed itself; the
\* saved thread pointer and extended state of every task that is not
\* running are still the ones it owns.
C26_TaskStateIsolation ==
    /\ sw.last = "switch" => Owned(hw) = own[cur]
    /\ hw.thread_pointer = TlsArea(cur)
    /\ hw.fpu \in {own[cur].fpu, [own[cur].fpu EXCEPT !.xmm = cur]}
    /\ \A t \in Tasks \ {cur} :
           status[t] \in Ready =>
               /\ ctx[t].fs_base = own[t].thread_pointer
               /\ ctx[t].ext_state = own[t].fpu
               /\ own[t].thread_pointer = TlsArea(t)
               /\ hw.thread_pointer # own[t].thread_pointer

\* A task that computed, was switched away from and is running again with
\* the extended state it left, while another task's computed state is saved.
C26_Witness ==
    /\ sw.last = "switch" /\ sw.was = "suspended"
    /\ hw.fpu.xmm = cur /\ hw.thread_pointer = TlsArea(cur)
    /\ \E t \in Tasks \ {cur} :
           /\ status[t] = "suspended"
           /\ ctx[t].ext_state.xmm = t
           /\ ctx[t].fs_base = TlsArea(t)


\* What fixup_exception gives for a frame when it runs alone on the table
\* as it is now.
Alone(frame) == FixupException(ex_table, frame)

\* C27: once init_exception_table has completed no step writes the table,
\* and no step of fixup_exception ever does; with any number of cores
\* inside fixup_exception at once, each on its own frame, a call that did
\* not overlap the sort returns the result and leaves the frame that the
\* call gives when run alone; a call that returns false for an ip that is
\* the `from` of an entry overlapped the sort.
C27_ConcurrentLookups ==
    /\ [][(sort_pc = "done" \/ core' # core) => ex_table' = ex_table]_vars
    /\ [](\A c \in Cores :
            core[c].pc = "done" =>
                /\ ~core[c].overlap =>
                       /\ core[c].ret = Alone(core[c].before).ret
                       /\ core[c].frame = Alone(core[c].before).frame
                /\ (~core[c].ret /\ EntriesAt(Ip(core[c].before)) # {}) =>
                       core[c].overlap)

\* On a full sorted table two cores are inside fixup_exception together,
\* neither overlapping the sort: one has found its entry and returned
\* true, the other is past its first probe.
C27_Witness ==
    /\ sort_pc = "done" /\ Len(ex_table) = MaxTable
    /\ \E c, d \in Cores :
           /\ c # d
           /\ core[c].pc = "done" /\ core[c].ret /\ ~core[c].overlap
           /\ Ip(core[c].frame) = ex_table[MaxTable].to
           /\ core[d].pc = "search" /\ core[d].base > 0 /\ ~core[d].overlap

=============================================================================
